---- MODULE Spec2Model ----
(***************************************************************************)
(* Voice interaction engine of intellidoc_reader: the VoiceManager state   *)
(* machine (src-tauri/src/voice/mod.rs), the Whisper provider's listening  *)
(* flag, and the reading synchronizer task spawned by read_content with    *)
(* its bounded position channel.                                           *)
(*                                                                         *)
(* A text is modelled as the sequence of the byte lengths of its           *)
(* whitespace-separated words: word timings depend on nothing else.        *)
(* Option<T> is modelled as a sequence of length 0 (None) or 1 (Some).     *)
(***************************************************************************)
EXTENDS Integers, Sequences, FiniteSets, TLC

\* ------------------------------------------------------------------ bounds
MaxWords == 2
MaxSessions == 2
ShortWord == 2
LongWord == 6
ExtraWords == 1
\* speeds and deltas given are -MaxQuarters..MaxQuarters quarters of 1.0
MaxQuarters == 14
\* the small page numbers tried, next to the largest ones of u32
MaxPage == 3
\* the texts timed have up to MaxChars characters
MaxChars == 5
\* start_capture starts at most MaxCaptures capture threads
MaxCaptures == 3
\* AudioBuffer capacities 1..MaxCapacity, samples 1..MaxSample, writes of up
\* to MaxWrite samples and up to MaxWritten samples written in all
MaxCapacity == 3
MaxSample == 2
MaxWrite == 2
MaxWritten == 5
\* the texts parsed have up to MaxTokens words of the vocabulary
MaxTokens == 3
\* WhisperSTT::start_listening spawns up to MaxListens tasks, and the polls a
\* task makes after its stop are counted up to MaxPolls
MaxListens == 3
MaxPolls == 2
\* the audio streamed has up to MaxChunks chunks
MaxChunks == 3
\* resample is given up to MaxResample samples and rates of 100..100 * MaxRate Hz
MaxResample == 3
MaxRate == 3
\* at most MaxConfigCalls set_voice_config calls are in progress together
MaxConfigCalls == 2
\* MaxCalls commands are called, in any order and overlapping
MaxCalls == 2
\* start_reading is called up to MaxReads times
MaxReads == 3

\* ------------------------------------------------------- program constants
\* mpsc::channel(100) of read_content
POSITION_CHANNEL_CAPACITY == 100
\* PiperTTS::new: speaking_rate: 1.0, in hundredths
PIPER_DEFAULT_RATE == 100
\* VoiceConfig::default: reading_speed: 1.0, in hundredths
DEFAULT_READING_SPEED == 100
\* clamp(0.25, 3.0), in hundredths
MIN_SPEED == 25
MAX_SPEED == 300
\* 2^16: a u32 that is computed with is written as two 16-bit halves,
\* [hi, lo] for hi * 2^16 + lo
HALF == 65536
\* chunk_size of synthesize_stream, in bytes, and the capacity of its channel
CHUNK_SIZE == 4096
STREAM_CHANNEL_CAPACITY == 100

VARIABLES
    stt,               \* VoiceManager.stt is Some
    tts,               \* VoiceManager.tts is Some
    stt_is_listening,  \* WhisperSTT.is_listening of the provider held in stt
    state,             \* VoiceManager.state
    current_position,  \* VoiceManager.current_position (Option)
    mgr,               \* the manager method in progress (it holds &mut self)
    syncs,             \* the synchronizer tasks spawned by read_content
    lastResult,        \* what the manager method called last returned
                       \* ("pending" until it returns)
    since              \* the manager call that wrote the state last: "read" a
                       \* read_content that spawned its task, "stop" a
                       \* stop_reading (or a stop_listening after it), else "none"

VARIABLES
    reading_speed,          \* VoiceManagerState.config.reading_speed, in hundredths
    manager_reading_speed,  \* VoiceManager.config.reading_speed, in hundredths
    response,               \* what process_voice_command returned last
    speaking_rate,          \* PiperTTS.speaking_rate, in hundredths
    timed_text,             \* the text given to PiperTTS::get_word_timings last
    last_timings,           \* and what it returned
    utterance,              \* the text given to VoiceCommandParser::parse last
    command,                \* and the VoiceCommand it returned (Option)
    is_recording,           \* AudioCapture.is_recording
    audio_tx,               \* AudioCapture.audio_tx (Option of a channel)
    capture_threads,        \* the capture threads spawned by start_capture
    capture_result,         \* what start_capture returned last
    buffer,                 \* AudioBuffer.buffer
    write_pos,              \* AudioBuffer.write_pos
    capacity,               \* AudioBuffer.capacity
    written,                \* the samples written since AudioBuffer::new or clear
    stt_provider,           \* VoiceManager.config.stt_provider (the variant)
    tts_provider,           \* VoiceManager.config.tts_provider (the variant)
    piper_path,             \* PiperTTS.piper_path is Some, of the provider held in tts
    synthesized,            \* what PiperTTS::synthesize returned last
    listen_tasks,           \* the transcription tasks spawned by WhisperSTT::start_listening
    listen_result,          \* what WhisperSTT::start_listening or stop_listening returned last
    stream_task,            \* the task spawned by PiperTTS::synthesize_stream
    stream_queue,           \* the AudioChunks sent and not yet received
    stream_received,        \* the AudioChunks the consumer received
    stream_rx_open,         \* the consumer still holds the receiver
    resample_args,          \* the samples and rates given to resample
    resampled,              \* what resample returned (Option)
    stops,                  \* for every session, what the stop_reading and read_content calls after its spawn were (kept by no code)
    config_calls,           \* the reading_speed of every set_voice_config that stored its config and has not yet updated the manager
    lock_calls,             \* the command handlers called: which one, where it is, the locks it holds
    lock_tasks,             \* the tasks the handlers spawned: which one, where it is, the locks it holds
    reading_sessions,       \* VoiceManagerState.reading_sessions: for every document id the receiver stored (0 for none)
    reads,                  \* the document ids of the start_reading calls whose read_content returned Ok; the n-th got receiver n
    read_call,              \* the start_reading that holds the manager lock (Option)
    event_tasks,            \* the event tasks spawned by start_reading
    ended_streams,          \* the receivers whose sender is dropped and whose channel is empty
    complete_events         \* for every document id the voice:reading_complete events emitted

\* the VoiceManager, its providers and its synchronizer tasks
managerVars == <<stt, tts, stt_is_listening, state, current_position, mgr, syncs,
                 lastResult, since>>

\* everything else: no VoiceManager method and no synchronizer touches it
commandVars == <<reading_speed, manager_reading_speed, response>>
piperVars == <<speaking_rate, timed_text, last_timings>>
parserVars == <<utterance, command>>
captureVars == <<is_recording, audio_tx, capture_threads, capture_result>>
bufferVars == <<buffer, write_pos, capacity, written>>
providerVars == <<stt_provider, tts_provider, piper_path, synthesized>>
listenVars == <<listen_tasks, listen_result>>
streamVars == <<stream_task, stream_queue, stream_received, stream_rx_open>>
resampleVars == <<resample_args, resampled>>
stopsVars == <<stops>>
configVars == <<config_calls>>
lockVars == <<lock_calls, lock_tasks>>
eventVars == <<reading_sessions, reads, read_call, event_tasks, ended_streams, complete_events>>

otherVars == <<commandVars, piperVars, parserVars, captureVars, bufferVars, providerVars, listenVars, streamVars, resampleVars, stopsVars, configVars, lockVars, eventVars>>

vars == <<managerVars, otherVars>>

VoiceState == {"Idle", "Listening", "Processing", "Speaking", "Reading"}

\* the texts read: 0..MaxWords words, short and long words alternating
TextOf(n) == [k \in 1..n |-> IF k % 2 = 1 THEN ShortWord ELSE LongWord]

Texts == {TextOf(n) : n \in 0..MaxWords}

\* a text longer than the position channel
LongTexts == {[k \in 1..(POSITION_CHANNEL_CAPACITY + ExtraWords) |-> ShortWord]}

SpeakTexts == {<<>>, <<ShortWord>>}

ReadingPosition(doc, page, para, wi, off, ts) ==
    [document_id |-> doc, page |-> page, paragraph_id |-> para,
     word_index |-> wi, character_offset |-> off, timestamp_ms |-> ts]

StartPositions ==
    {ReadingPosition("d1", 1, "a", 0, 0, 0), ReadingPosition("d2", 2, "b", 3, 1, 0)}

None == <<>>
Some(x) == <<x>>

Max(a, b) == IF a >= b THEN a ELSE b
Min(a, b) == IF a <= b THEN a ELSE b

\* ------------------------------------------------------------ word timings
\* ms_per_word = (1000.0 / (2.5 * rate)) as u64, rate given in hundredths
MsPerWord(rate100) == 1000000 \div (25 * rate100)

\* (ms_per_word as f32 * (len / 5.0).max(0.5)) as u64; the integer form
\* gives the f32 result for the rates that are multiples of 0.25 in
\* [0.25, 3.0] and words shorter than 21 bytes
WordDuration(len, rate100) == (MsPerWord(rate100) * Max(2 * len, 5)) \div 10

RECURSIVE estimate_word_timings_from(_, _, _)
estimate_word_timings_from(text, rate100, current_ms) ==
    IF text = <<>> THEN <<>>
    ELSE LET d == WordDuration(Head(text), rate100)
         IN  <<[len |-> Head(text), start_ms |-> current_ms, end_ms |-> current_ms + d]>>
             \o estimate_word_timings_from(Tail(text), rate100, current_ms + d)

estimate_word_timings(text, rate100) == estimate_word_timings_from(text, rate100, 0)

\* PiperTTS::get_word_timings
get_word_timings(text) == estimate_word_timings(text, speaking_rate)

\* --------------------------------------------------------------- initially
NotStarted == [pc |-> "ready", text |-> <<>>, start |-> None]

\* VoiceManagerState::new
CommandsInit ==
    /\ reading_speed = DEFAULT_READING_SPEED
    /\ manager_reading_speed = DEFAULT_READING_SPEED
    /\ response = [outcome |-> "none", text |-> <<>>, should_speak |-> FALSE,
                   action |-> None]

\* PiperTTS::new
PiperInit ==
    /\ speaking_rate = PIPER_DEFAULT_RATE
    /\ timed_text = <<>>
    /\ last_timings = <<>>

\* VoiceCommandParser::new: nothing parsed yet
ParserInit ==
    /\ utterance = <<>>
    /\ command = None

\* AudioCapture::new
CaptureInit ==
    /\ is_recording = FALSE
    /\ audio_tx = None
    /\ capture_threads = <<>>
    /\ capture_result = "none"

\* AudioBuffer::new(capacity)
AudioBufferNew(c) ==
    /\ buffer = [i \in 1..c |-> 0]
    /\ write_pos = 0
    /\ capacity = c
    /\ written = <<>>

\* VoiceConfig::default names the local providers; no PiperTTS exists yet
ProvidersInit ==
    /\ stt_provider = "WhisperLocal"
    /\ tts_provider = "PiperLocal"
    /\ piper_path = FALSE
    /\ synthesized = [text |-> <<>>, result |-> [outcome |-> "none"]]

\* no listening session yet
ListeningInit ==
    /\ listen_tasks = <<>>
    /\ listen_result = "Ok"

\* no synthesize_stream yet
NoStream == [pc |-> "none", i |-> 0, len |-> 0, sample_rate |-> 22050, timings |-> <<>>]

StreamInit ==
    /\ stream_task = NoStream
    /\ stream_queue = <<>>
    /\ stream_received = <<>>
    /\ stream_rx_open = FALSE

\* nothing resampled yet
ResampleInit ==
    /\ resample_args = [samples |-> <<>>, from_rate |-> 100, to_rate |-> 100]
    /\ resampled = None

\* no session was stopped: stopped_at is the task's word_index at the first
\* stop_reading since a read_content wrote Reading last, -1 when there is none
StopsInit ==
    stops = [i \in 1..MaxSessions |-> [stopped |-> FALSE, stopped_at |-> -1]]

\* no set_voice_config is in progress
ConfigInit == config_calls = <<>>

\* no command is called and no task spawned
LocksInit ==
    /\ lock_calls = [k \in 1..MaxCalls |-> [kind |-> "none", pc |-> 1, held |-> {}]]
    /\ lock_tasks = <<>>

\* no start_reading was called
EventsInit ==
    /\ reading_sessions = [d \in {"d1", "d2"} |-> 0]
    /\ reads = <<>>
    /\ read_call = <<>>
    /\ event_tasks = <<>>
    /\ ended_streams = {}
    /\ complete_events = [d \in {"d1", "d2"} |-> 0]

ManagerInit ==
    /\ stt = FALSE
    /\ tts = FALSE
    /\ stt_is_listening = FALSE
    /\ state = "Idle"
    /\ current_position = None
    /\ mgr = NotStarted
    /\ syncs = <<>>
    /\ lastResult = "Ok"
    /\ since = "none"

Init ==
    /\ ManagerInit
    /\ EventsInit
    /\ LocksInit
    /\ ConfigInit
    /\ StopsInit
    /\ ResampleInit
    /\ CommandsInit
    /\ PiperInit
    /\ ParserInit
    /\ CaptureInit
    /\ AudioBufferNew(1)
    /\ ProvidersInit
    /\ ListeningInit
    /\ StreamInit

Returns(res) ==
    /\ lastResult' = res
    /\ mgr' = NotStarted

\* --------------------------------------------------------- VoiceManager
\* VoiceManager::initialize: the STT provider is created first; a failure
\* returns before the TTS provider is created.  A created WhisperSTT starts
\* with is_listening = false.
Initialize ==
    /\ mgr.pc = "ready"
    /\ \E sttOk \in BOOLEAN, ttsOk \in BOOLEAN :
         IF ~sttOk
         THEN /\ Returns("Error")
              /\ UNCHANGED <<stt, tts, stt_is_listening>>
         ELSE /\ stt' = TRUE
              /\ stt_is_listening' = FALSE
              /\ IF ttsOk
                 THEN tts' = TRUE /\ Returns("Ok")
                 ELSE UNCHANGED tts /\ Returns("Error")
    /\ UNCHANGED <<state, current_position, syncs, since>>
    /\ UNCHANGED otherVars

\* WhisperSTT::start_listening: TRUE when the provider accepts
WhisperStartAccepts == ~stt_is_listening

\* mutant: only a listening manager is rejected
StartListeningRejects_OnlyListening == state = "Listening"

\* the guard of VoiceManager::start_listening on the state
StartListeningRejects == state # "Idle"

StartListening ==
    /\ mgr.pc = "ready"
    /\ IF ~stt
       THEN /\ Returns("NotInitialized")
            /\ UNCHANGED <<state, stt_is_listening, since>>
       ELSE IF StartListeningRejects
       THEN /\ Returns("InvalidState")
            /\ UNCHANGED <<state, stt_is_listening, since>>
       ELSE /\ state' = "Listening"
            /\ since' = "none"
            /\ IF WhisperStartAccepts
               THEN /\ stt_is_listening' = TRUE
                    /\ Returns("Ok")
               ELSE /\ UNCHANGED stt_is_listening
                    /\ Returns("InvalidState")
    /\ UNCHANGED <<stt, tts, current_position, syncs>>
    /\ UNCHANGED otherVars

StopListening ==
    /\ mgr.pc = "ready"
    /\ IF ~stt
       THEN /\ Returns("NotInitialized")
            /\ UNCHANGED <<state, stt_is_listening, since>>
       ELSE /\ stt_is_listening' = FALSE
            /\ state' = "Idle"
            /\ since' = IF since = "stop" THEN "stop" ELSE "none"
            /\ Returns("Ok")
    /\ UNCHANGED <<stt, tts, current_position, syncs>>
    /\ UNCHANGED otherVars

\* read_content up to the first release of the state lock: what it does to
\* the manager
ReadContentOnCall(text, start_position) ==
    /\ mgr.pc = "ready"
    /\ Len(syncs) < MaxSessions
    /\ IF ~tts
       THEN /\ Returns("NotInitialized")
            /\ UNCHANGED <<state, since>>
       ELSE /\ state' = "Reading"
            /\ mgr' = [pc |-> "rc_store", text |-> text, start |-> Some(start_position)]
            /\ lastResult' = "pending"
            /\ since' = "none"
    /\ UNCHANGED <<stt, tts, stt_is_listening, current_position, syncs>>

\* mutant: the state is written before the provider is looked up
ReadContentOn_StateFirst(text, start_position) ==
    /\ mgr.pc = "ready"
    /\ Len(syncs) < MaxSessions
    /\ state' = "Reading"
    /\ since' = "none"
    /\ IF ~tts
       THEN Returns("NotInitialized")
       ELSE /\ mgr' = [pc |-> "rc_store", text |-> text, start |-> Some(start_position)]
            /\ lastResult' = "pending"
    /\ UNCHANGED <<stt, tts, stt_is_listening, current_position, syncs>>
    /\ UNCHANGED otherVars

\* read_content up to the first release of the state lock
ReadContentOn(text, start_position) ==
    /\ ReadContentOnCall(text, start_position)
    /\ UNCHANGED otherVars

ReadContent == \E text \in Texts, p \in StartPositions : ReadContentOn(text, p)

\* read_content: "Store starting position"
ReadContentStore ==
    /\ mgr.pc = "rc_store"
    /\ current_position' = mgr.start
    /\ mgr' = [mgr EXCEPT !.pc = "rc_synth"]
    /\ UNCHANGED <<stt, tts, stt_is_listening, state, syncs, lastResult, since>>
    /\ UNCHANGED otherVars

\* the task read_content spawns, before its first step
NewSync(word_timings, start) ==
    [timings |-> word_timings, start |-> start, word_index |-> 0, pc |-> "check",
     queue |-> <<>>, rx_alive |-> TRUE, delivered |-> <<>>]

\* read_content: get_word_timings, synthesize_stream (which fails when the
\* synthesis of a non-empty text fails), then the spawn
ReadContentSpawn ==
    /\ mgr.pc = "rc_synth"
    /\ \E synthOk \in BOOLEAN :
         IF synthOk \/ mgr.text = <<>>
         THEN /\ syncs' = Append(syncs, NewSync(get_word_timings(mgr.text), mgr.start[1]))
              /\ since' = "read"
              /\ Returns("Ok")
         ELSE /\ UNCHANGED <<syncs, since>>
              /\ Returns("Error")
    /\ UNCHANGED <<stt, tts, stt_is_listening, state, current_position>>
    /\ UNCHANGED otherVars

\* what stop_reading writes to the state
StateAfterStopReading == "Idle"

\* what stop_reading does to the manager
StopReadingCall ==
    /\ mgr.pc = "ready"
    /\ IF ~tts
       THEN /\ Returns("NotInitialized")
            /\ UNCHANGED <<state, since>>
       ELSE /\ state' = StateAfterStopReading
            /\ since' = "stop"
            /\ Returns("Ok")
    /\ UNCHANGED <<stt, tts, stt_is_listening, current_position, syncs>>

\* mutant: stop_reading also clears the current position
StopReading_ClearsPosition ==
    /\ mgr.pc = "ready"
    /\ IF ~tts
       THEN /\ Returns("NotInitialized")
            /\ UNCHANGED <<state, since, current_position>>
       ELSE /\ state' = "Idle"
            /\ since' = "stop"
            /\ current_position' = None
            /\ Returns("Ok")
    /\ UNCHANGED <<stt, tts, stt_is_listening, syncs>>
    /\ UNCHANGED otherVars

StopReading ==
    /\ StopReadingCall
    /\ UNCHANGED otherVars

\* speak up to the release of the state lock
SpeakOn(text) ==
    /\ mgr.pc = "ready"
    /\ IF ~tts
       THEN /\ Returns("NotInitialized")
            /\ UNCHANGED <<state, since>>
       ELSE /\ state' = "Speaking"
            /\ since' = "none"
            /\ mgr' = [pc |-> "sp_synth", text |-> text, start |-> None]
            /\ lastResult' = "pending"
    /\ UNCHANGED <<stt, tts, stt_is_listening, current_position, syncs>>
    /\ UNCHANGED otherVars

Speak == \E text \in SpeakTexts : SpeakOn(text)

\* speak: synthesize, play_audio, then the state goes back to Idle; either
\* call may fail and the error is returned at once
SpeakFinish ==
    /\ mgr.pc = "sp_synth"
    /\ \E synthOk \in BOOLEAN, playOk \in BOOLEAN :
         IF ~(synthOk \/ mgr.text = <<>>)
         THEN UNCHANGED state /\ Returns("Error")
         ELSE IF ~playOk
         THEN UNCHANGED state /\ Returns("Error")
         ELSE state' = "Idle" /\ Returns("Ok")
    /\ UNCHANGED <<stt, tts, stt_is_listening, current_position, syncs, since>>
    /\ UNCHANGED otherVars

\* -------------------------------------------- the synchronizer task
Sessions == DOMAIN syncs

\* the ReadingPosition the task builds for its current word
SyncPosition(s) ==
    ReadingPosition(s.start.document_id, s.start.page, s.start.paragraph_id,
                    s.word_index, 0, s.timings[s.word_index + 1].start_ms)

\* mutant: the task never looks at the state
StillReading_Always == TRUE

\* "Check if still reading": TRUE when the task goes on with the word
StillReading == state = "Reading"

\* top of the for loop: the loop ends after the last timing; otherwise the
\* task sleeps until the word's start_ms and reads the state
SyncCheck(i) ==
    /\ syncs[i].pc = "check"
    /\ syncs' = [syncs EXCEPT ![i].pc =
                   IF syncs[i].word_index < Len(syncs[i].timings) /\ StillReading
                   THEN "store" ELSE "final"]
    /\ UNCHANGED <<stt, tts, stt_is_listening, state, current_position, mgr,
                   lastResult, since>>
    /\ UNCHANGED otherVars

\* "Update stored position"
SyncStore(i) ==
    /\ syncs[i].pc = "store"
    /\ current_position' = Some(SyncPosition(syncs[i]))
    /\ syncs' = [syncs EXCEPT ![i].pc = "send"]
    /\ UNCHANGED <<stt, tts, stt_is_listening, state, mgr, lastResult, since>>
    /\ UNCHANGED otherVars

\* mutant: the increment of word_index is lost
SendTo_NoIncrement(s) ==
    IF ~s.rx_alive
    THEN [s EXCEPT !.pc = "final"]
    ELSE [s EXCEPT !.queue = Append(s.queue, SyncPosition(s)), !.pc = "check"]

\* tx.send(position).await on the bounded channel, then word_index += 1:
\* an error when the receiver is gone, a wait while the channel is full
SendTo(s) ==
    IF ~s.rx_alive
    THEN [s EXCEPT !.pc = "final"]
    ELSE [s EXCEPT !.queue = Append(s.queue, SyncPosition(s)),
                   !.word_index = s.word_index + 1,
                   !.pc = "check"]

\* mutant: an unbounded channel
ChannelHasRoom_Unbounded(s) == TRUE

\* mpsc::channel(100): a send completes only while fewer than 100 wait
ChannelHasRoom(s) == Len(s.queue) < POSITION_CHANNEL_CAPACITY

SyncSend(i) ==
    /\ syncs[i].pc = "send"
    /\ syncs[i].rx_alive => ChannelHasRoom(syncs[i])
    /\ syncs' = [syncs EXCEPT ![i] = SendTo(syncs[i])]
    /\ UNCHANGED <<stt, tts, stt_is_listening, state, current_position, mgr,
                   lastResult, since>>
    /\ UNCHANGED otherVars

\* "Mark as idle when done"
StateAfterSync == IF state = "Reading" THEN "Idle" ELSE state

SyncFinish(i) ==
    /\ syncs[i].pc = "final"
    /\ state' = StateAfterSync
    /\ syncs' = [syncs EXCEPT ![i].pc = "done"]
    /\ UNCHANGED <<stt, tts, stt_is_listening, current_position, mgr,
                   lastResult, since>>
    /\ UNCHANGED otherVars

SyncStep(i) == SyncCheck(i) \/ SyncStore(i) \/ SyncSend(i) \/ SyncFinish(i)

\* ------------------------------------- the holder of the receiver
\* receiver.recv().await
Recv(i) ==
    /\ syncs[i].rx_alive
    /\ syncs[i].queue # <<>>
    /\ syncs' = [syncs EXCEPT ![i].queue = Tail(syncs[i].queue),
                              ![i].delivered = Append(syncs[i].delivered, Head(syncs[i].queue))]
    /\ UNCHANGED <<stt, tts, stt_is_listening, state, current_position, mgr,
                   lastResult, since>>
    /\ UNCHANGED otherVars

\* the receiver is dropped: what the channel still holds is discarded
DropReceiver(i) ==
    /\ syncs[i].rx_alive
    /\ syncs' = [syncs EXCEPT ![i].rx_alive = FALSE, ![i].queue = <<>>]
    /\ UNCHANGED <<stt, tts, stt_is_listening, state, current_position, mgr,
                   lastResult, since>>
    /\ UNCHANGED otherVars

\* ------------------------------------------ speed and page commands
notCommands == <<managerVars, piperVars, parserVars, captureVars, bufferVars, providerVars, listenVars, streamVars, resampleVars, stopsVars, configVars, lockVars, eventVars>>

\* the f32 arguments tried: the multiples of 0.25 (exact in f32), in hundredths
Quarters == {25 * n : n \in (0 - MaxQuarters)..MaxQuarters}

\* f32::clamp
clamp(x, min, max) == IF x < min THEN min ELSE IF x > max THEN max ELSE x

\* format!("{:.1}", speed): the number of tenths printed, the decimal
\* expansion rounded to the nearest tenth and a tie to the even one
FormatTenths(speed100) ==
    LET q == speed100 \div 10
        r == speed100 % 10
    IN  IF r < 5 THEN q
        ELSE IF r > 5 THEN q + 1
        ELSE IF q % 2 = 0 THEN q ELSE q + 1

Responds(text, should_speak, action) ==
    response' = [outcome |-> "Ok", text |-> text, should_speak |-> should_speak,
                 action |-> action]

\* "Speed set to {:.1}x" and VoiceAction::AdjustSpeed
SpeedResponse(speed100) ==
    Responds(<<"Speed set to ", FormatTenths(speed100), "x">>, TRUE,
             Some([type |-> "AdjustSpeed", speed |-> speed100]))

\* process_voice_command, VoiceCommand::AdjustSpeed { delta }
ProcessAdjustSpeed(delta) ==
    /\ reading_speed' = clamp(reading_speed + delta, MIN_SPEED, MAX_SPEED)
    /\ SpeedResponse(reading_speed')
    /\ UNCHANGED manager_reading_speed
    /\ UNCHANGED notCommands

\* process_voice_command, VoiceCommand::SetSpeed { speed }
ProcessSetSpeed(speed) ==
    /\ reading_speed' = clamp(speed, MIN_SPEED, MAX_SPEED)
    /\ SpeedResponse(reading_speed')
    /\ UNCHANGED manager_reading_speed
    /\ UNCHANGED notCommands

\* the command set_reading_speed: the stored config, then the manager's
set_reading_speed(speed) ==
    /\ reading_speed' = clamp(speed, MIN_SPEED, MAX_SPEED)
    /\ manager_reading_speed' = reading_speed'
    /\ UNCHANGED response
    /\ UNCHANGED notCommands

\* u32 values in halves; Succ and Pred are the successor and predecessor
\* of the integers (Succ(U32_MAX) is 2^32, which is no u32)
U32Of(n) == [hi |-> n \div HALF, lo |-> n % HALF]
U32_MAX == [hi |-> HALF - 1, lo |-> HALF - 1]
Succ(n) == IF n.lo < HALF - 1 THEN [n EXCEPT !.lo = n.lo + 1]
           ELSE [hi |-> n.hi + 1, lo |-> 0]
Pred(n) == IF n.lo > 0 THEN [n EXCEPT !.lo = n.lo - 1]
           ELSE [hi |-> n.hi - 1, lo |-> HALF - 1]
Less(m, n) == m.hi < n.hi \/ (m.hi = n.hi /\ m.lo < n.lo)
MaxOf(m, n) == IF Less(m, n) THEN n ELSE m

\* the current_position argument of process_voice_command: none, or a
\* position on one of the first pages or of the last pages of u32
Pages == {U32Of(n) : n \in 0..MaxPage} \cup {Pred(U32_MAX), U32_MAX}

CommandPositions ==
    {None} \cup {Some(ReadingPosition("d1", p, "a", 3, 1, 7)) : p \in Pages}

\* ReadingPosition::default
DefaultPosition == ReadingPosition("", U32Of(0), "", 0, 0, 0)

unwrap_or_default(current) == IF current = None THEN DefaultPosition ELSE current[1]

\* position.page.saturating_sub(1).max(1)
PreviousPage(page) == MaxOf(IF page = U32Of(0) THEN U32Of(0) ELSE Pred(page), U32Of(1))

ScrollResponse(position) ==
    Responds(<<"Page ", position.page>>, FALSE,
             Some([type |-> "ScrollTo", position |-> position]))

\* process_voice_command, VoiceCommand::NavigatePage { direction }.
\* position.page += 1 on u32::MAX panics where overflow checks are compiled
\* in and wraps to 0 where they are not.
ProcessNavigatePage(direction, current) ==
    LET position == unwrap_or_default(current)
    IN  /\ IF direction = "Previous"
           THEN ScrollResponse([position EXCEPT !.page = PreviousPage(position.page)])
           ELSE IF position.page # U32_MAX
           THEN ScrollResponse([position EXCEPT !.page = Succ(position.page)])
           ELSE \/ response' = [response EXCEPT !.outcome = "panic"]
                \/ ScrollResponse([position EXCEPT !.page = U32Of(0)])
        /\ UNCHANGED <<reading_speed, manager_reading_speed>>
        /\ UNCHANGED notCommands

AdjustSpeedCommand == \E delta \in Quarters : ProcessAdjustSpeed(delta)

SetSpeedCommand == \E speed \in Quarters : ProcessSetSpeed(speed)

SetReadingSpeed == \E speed \in Quarters : set_reading_speed(speed)

NavigatePageCommand ==
    \E direction \in {"Next", "Previous"}, current \in CommandPositions :
        ProcessNavigatePage(direction, current)

\* ------------------------------------- PiperTTS: rate and word timings
notPiper == <<managerVars, commandVars, parserVars, captureVars, bufferVars, providerVars, listenVars, streamVars, resampleVars, stopsVars, configVars, lockVars, eventVars>>

\* mutant: the range the TextToSpeech trait documents, 0.5 to 2.0
set_rate_TraitRange(rate) ==
    /\ speaking_rate' = clamp(rate, 2 * MIN_SPEED, MAX_SPEED - DEFAULT_READING_SPEED)
    /\ UNCHANGED <<timed_text, last_timings>>
    /\ UNCHANGED notPiper

\* PiperTTS::set_rate
set_rate(rate) ==
    /\ speaking_rate' = clamp(rate, MIN_SPEED, MAX_SPEED)
    /\ UNCHANGED <<timed_text, last_timings>>
    /\ UNCHANGED notPiper

PiperSetRate == \E rate \in Quarters : set_rate(rate)

\* a text as its characters, each a string of length 1 and of one byte
RECURSIVE StringsUpTo(_, _)
StringsUpTo(chars, n) ==
    IF n = 0 THEN {<<>>}
    ELSE LET shorter == StringsUpTo(chars, n - 1)
         IN  shorter \cup {Append(t, c) : t \in shorter, c \in chars}

TimedTexts == StringsUpTo({"a", " "}, MaxChars)

\* str::split_whitespace: the maximal runs of characters that are no space;
\* word is the run being read
RECURSIVE split_whitespace_from(_, _)
split_whitespace_from(text, word) ==
    IF text = <<>> THEN (IF word = <<>> THEN <<>> ELSE <<word>>)
    ELSE IF Head(text) = " "
    THEN (IF word = <<>> THEN <<>> ELSE <<word>>) \o split_whitespace_from(Tail(text), <<>>)
    ELSE split_whitespace_from(Tail(text), Append(word, Head(text)))

split_whitespace(text) == split_whitespace_from(text, <<>>)

\* word.len() of every word of the text
WordLengths(text) ==
    LET words == split_whitespace(text)
    IN  [k \in 1..Len(words) |-> Len(words[k])]

\* mutant: the next word starts where the previous one started
TimingsOf_NoAdvance(text, rate100) ==
    LET lens == WordLengths(text)
    IN  [k \in 1..Len(lens) |->
           [len |-> lens[k], start_ms |-> 0, end_ms |-> WordDuration(lens[k], rate100)]]

\* estimate_word_timings on the characters of a text
TimingsOf(text, rate100) == estimate_word_timings(WordLengths(text), rate100)

\* PiperTTS::get_word_timings called with a text
GetWordTimings ==
    /\ \E text \in TimedTexts :
         /\ timed_text' = text
         /\ last_timings' = TimingsOf(text, speaking_rate)
    /\ UNCHANGED speaking_rate
    /\ UNCHANGED notPiper

\* ------------------------------------------------------ AudioCapture
notCapture == <<managerVars, commandVars, piperVars, parserVars, bufferVars, providerVars, listenVars, streamVars, resampleVars, stopsVars, configVars, lockVars, eventVars>>

\* mutant: a capture is started whether or not one is active
start_capture_NoCheck ==
    /\ Len(capture_threads) < MaxCaptures
    /\ audio_tx' = Some(Len(capture_threads) + 1)
    /\ is_recording' = TRUE
    /\ capture_threads' =
         Append(capture_threads, [tx |-> Len(capture_threads) + 1, pc |-> "spawned"])
    /\ capture_result' = "Ok"
    /\ UNCHANGED notCapture

\* AudioCapture::start_capture: a channel is known by the number of the
\* thread that sends on it; Ok stands for Ok(rx) of the new channel
start_capture ==
    /\ IF is_recording
       THEN /\ capture_result' = "AudioError"
            /\ UNCHANGED <<is_recording, audio_tx, capture_threads>>
       ELSE /\ Len(capture_threads) < MaxCaptures
            /\ audio_tx' = Some(Len(capture_threads) + 1)
            /\ is_recording' = TRUE
            /\ capture_threads' =
                 Append(capture_threads, [tx |-> Len(capture_threads) + 1, pc |-> "spawned"])
            /\ capture_result' = "Ok"
    /\ UNCHANGED notCapture

\* AudioCapture::stop_capture
stop_capture ==
    /\ is_recording' = FALSE
    /\ audio_tx' = None
    /\ UNCHANGED <<capture_threads, capture_result>>
    /\ UNCHANGED notCapture

\* capture_audio_loop up to stream.play(): without an input device (or with
\* a stream that cannot be built) the thread logs the error and ends; the
\* build without cpal takes no device and always goes on
CaptureLoopOpen(i) ==
    /\ capture_threads[i].pc = "spawned"
    /\ \E deviceOk \in BOOLEAN :
         capture_threads' = [capture_threads EXCEPT ![i].pc =
                               IF deviceOk THEN "streaming" ELSE "failed"]
    /\ UNCHANGED <<is_recording, audio_tx, capture_result>>
    /\ UNCHANGED notCapture

\* capture_audio_loop: "Keep the stream alive while recording"
CaptureLoopPoll(i) ==
    /\ capture_threads[i].pc = "streaming"
    /\ ~is_recording
    /\ capture_threads' = [capture_threads EXCEPT ![i].pc = "ended"]
    /\ UNCHANGED <<is_recording, audio_tx, capture_result>>
    /\ UNCHANGED notCapture

\* ------------------------------------------------------- AudioBuffer
notBuffer == <<managerVars, commandVars, piperVars, parserVars, captureVars, providerVars, listenVars, streamVars, resampleVars, stopsVars, configVars, lockVars, eventVars>>

\* the samples written: numbers other than the 0.0 a new buffer holds
Samples == 1..MaxSample

SampleRuns == StringsUpTo(Samples, MaxWrite)

\* AudioBuffer::new(capacity) on the buffer in use
NewAudioBuffer ==
    /\ \E c \in 1..MaxCapacity :
         /\ buffer' = [i \in 1..c |-> 0]
         /\ write_pos' = 0
         /\ capacity' = c
    /\ written' = <<>>
    /\ UNCHANGED notBuffer

\* mutant: write_pos runs up to the capacity before it wraps
WriteSample_LateWrap(b, sample) ==
    [buffer |-> [b.buffer EXCEPT ![(b.write_pos % capacity) + 1] = sample],
     write_pos |-> (b.write_pos + 1) % (capacity + 1)]

\* one turn of the loop of AudioBuffer::write (sequences start at 1)
WriteSample(b, sample) ==
    [buffer |-> [b.buffer EXCEPT ![b.write_pos + 1] = sample],
     write_pos |-> (b.write_pos + 1) % capacity]

RECURSIVE WriteSamples(_, _)
WriteSamples(b, samples) ==
    IF samples = <<>> THEN b
    ELSE WriteSamples(WriteSample(b, Head(samples)), Tail(samples))

\* AudioBuffer::write
AudioBufferWrite ==
    /\ \E samples \in SampleRuns :
         /\ Len(written) + Len(samples) <= MaxWritten
         /\ LET b == WriteSamples([buffer |-> buffer, write_pos |-> write_pos], samples)
            IN  /\ buffer' = b.buffer
                /\ write_pos' = b.write_pos
         /\ written' = written \o samples
    /\ UNCHANGED capacity
    /\ UNCHANGED notBuffer

\* AudioBuffer::clear
AudioBufferClear ==
    /\ buffer' = [i \in 1..capacity |-> 0]
    /\ write_pos' = 0
    /\ written' = <<>>
    /\ UNCHANGED capacity
    /\ UNCHANGED notBuffer

\* AudioBuffer::read_all
read_all == [i \in 1..capacity |-> buffer[((write_pos + (i - 1)) % capacity) + 1]]

\* ------------------------------------------------- VoiceCommandParser
\* A string is the sequence of its characters, each written as a string of
\* length 1 (the four characters of the Chinese and Japanese note prefixes
\* by their code points); the texts parsed are ASCII, one byte to the
\* character.
notParser == <<managerVars, commandVars, piperVars, captureVars, bufferVars, providerVars, listenVars, streamVars, resampleVars, stopsVars, configVars, lockVars, eventVars>>

UpperLetters == <<"A", "B", "C", "D", "E", "F", "G", "H", "I", "J", "K", "L", "M", "N", "O", "P", "Q", "R", "S", "T", "U", "V", "W", "X", "Y", "Z">>
LowerLetters == <<"a", "b", "c", "d", "e", "f", "g", "h", "i", "j", "k", "l", "m", "n", "o", "p", "q", "r", "s", "t", "u", "v", "w", "x", "y", "z">>
Digits == <<"0", "1", "2", "3", "4", "5", "6", "7", "8", "9">>

InSeq(c, s) == \E i \in 1..Len(s) : s[i] = c
IndexIn(c, s) == CHOOSE i \in 1..Len(s) : s[i] = c

is_ascii_digit(c) == InSeq(c, Digits)
is_alphanumeric(c) == InSeq(c, Digits) \/ InSeq(c, LowerLetters) \/ InSeq(c, UpperLetters)
is_whitespace(c) == c = " "

\* str::to_lowercase
to_lowercase(s) ==
    [i \in 1..Len(s) |-> IF InSeq(s[i], UpperLetters)
                         THEN LowerLetters[IndexIn(s[i], UpperLetters)] ELSE s[i]]

\* s[from..], from counted from 0
SliceFrom(s, from) == SubSeq(s, from + 1, Len(s))

\* the part of s from the first to the last of the places kept
KeptSpan(s, kept) ==
    IF kept = {} THEN <<>>
    ELSE SubSeq(s, CHOOSE i \in kept : \A j \in kept : i <= j,
                   CHOOSE i \in kept : \A j \in kept : i >= j)

\* str::trim
trim(s) == KeptSpan(s, {i \in 1..Len(s) : ~is_whitespace(s[i])})

\* str::trim_matches(|c: char| !c.is_alphanumeric())
trim_matches_not_alphanumeric(s) == KeptSpan(s, {i \in 1..Len(s) : is_alphanumeric(s[i])})

starts_with(s, p) == Len(p) <= Len(s) /\ SubSeq(s, 1, Len(p)) = p
ends_with(s, p) == Len(p) <= Len(s) /\ SubSeq(s, Len(s) - Len(p) + 1, Len(s)) = p

\* the places, counted from 0, where p occurs in s
Occurrences(s, p) == {i \in 0..(Len(s) - Len(p)) : SubSeq(s, i + 1, i + Len(p)) = p}
contains(s, p) == Occurrences(s, p) # {}

\* str::find: the first place where p occurs, for a p that occurs
find(s, p) == CHOOSE i \in Occurrences(s, p) : \A j \in Occurrences(s, p) : i <= j

\* the second half of str::split_once(':'), for an s that holds a colon
AfterColon(s) == SliceFrom(s, find(s, <<":">>) + 1)

\* ---- the commands
NoteDown(content) == [type |-> "NoteDown", content |-> content]
AskQuestion(question) == [type |-> "AskQuestion", question |-> question]
Highlight(color) == [type |-> "Highlight", color |-> color]
StartReading == [type |-> "StartReading"]
StopReadingCommand == [type |-> "StopReading"]
Repeat == [type |-> "Repeat"]
SkipSection == [type |-> "SkipSection"]
GoBack == [type |-> "GoBack"]
ExplainSelection == [type |-> "ExplainSelection"]
GoToPage(page) == [type |-> "GoToPage", page |-> page]
NavigatePage(direction) == [type |-> "NavigatePage", direction |-> direction]
AdjustSpeed(delta) == [type |-> "AdjustSpeed", delta |-> delta]
SetSpeed(speed) == [type |-> "SetSpeed", speed |-> speed]
Summarize(scope) == [type |-> "Summarize", scope |-> scope]
Define(word) == [type |-> "Define", word |-> word]
Translate(language) == [type |-> "Translate", target_language |-> language]
Search(query) == [type |-> "Search", query |-> query]
Zoom(direction) == [type |-> "Zoom", direction |-> direction]
FreeText(text) == [type |-> "FreeText", text |-> text]

\* TRUE when s starts with one of the phrases
StartsWithAny(s, phrases) == \E k \in 1..Len(phrases) : starts_with(s, phrases[k])

\* ---- parse_note_command
NotePrefixes ==
    <<<<"n", "o", "t", "e", " ", "d", "o", "w", "n">>,
      <<"n", "o", "t", "e">>,
      <<"w", "r", "i", "t", "e", " ", "d", "o", "w", "n">>,
      <<"w", "r", "i", "t", "e">>,
      <<"a", "d", "d", " ", "n", "o", "t", "e">>,
      <<"t", "a", "k", "e", " ", "n", "o", "t", "e">>,
      <<"r", "e", "m", "e", "m", "b", "e", "r">>,
      <<"U+8BB0", "U+4E0B">>,
      <<"U+30E1", "U+30E2">>>>

\* the content found with one prefix (Option)
NoteContent(lower, original, prefix) ==
    IF contains(lower, <<":">>) THEN Some(trim(AfterColon(original)))
    ELSE Some(trim(SliceFrom(original, Len(prefix))))

\* the loop over the prefixes, from the k-th on
RECURSIVE parse_note_command_from(_, _, _)
parse_note_command_from(lower, original, k) ==
    IF k > Len(NotePrefixes) THEN None
    ELSE IF /\ starts_with(lower, NotePrefixes[k])
            /\ NoteContent(lower, original, NotePrefixes[k])[1] # <<>>
    THEN NoteContent(lower, original, NotePrefixes[k])
    ELSE parse_note_command_from(lower, original, k + 1)

parse_note_command(lower, original) == parse_note_command_from(lower, original, 1)

\* ---- parse_question_command
QuestionPrefixes ==
    <<<<"a", "s", "k">>,
      <<"q", "u", "e", "s", "t", "i", "o", "n">>,
      <<"w", "h", "a", "t", " ", "i", "s">>,
      <<"w", "h", "a", "t", " ", "a", "r", "e">>,
      <<"h", "o", "w", " ", "d", "o">>,
      <<"h", "o", "w", " ", "d", "o", "e", "s">>,
      <<"w", "h", "y">>>>

parse_question_command(lower, original) ==
    IF StartsWithAny(lower, QuestionPrefixes)
    THEN IF contains(lower, <<":">>)
         THEN Some(trim(AfterColon(original)))
         ELSE Some(original)
    ELSE None

\* ---- parse_highlight_command: Option<Option<String>>
Colors ==
    <<<<"y", "e", "l", "l", "o", "w">>,
      <<"g", "r", "e", "e", "n">>,
      <<"b", "l", "u", "e">>,
      <<"r", "e", "d">>,
      <<"p", "u", "r", "p", "l", "e">>,
      <<"o", "r", "a", "n", "g", "e">>,
      <<"p", "i", "n", "k">>>>

parse_highlight_command(lower) ==
    IF contains(lower, <<"h", "i", "g", "h", "l", "i", "g", "h", "t">>)
    THEN IF \E k \in 1..Len(Colors) : contains(lower, Colors[k])
         THEN Some(Some(Colors[CHOOSE k \in 1..Len(Colors) :
                                 /\ contains(lower, Colors[k])
                                 /\ \A j \in 1..(k - 1) : ~contains(lower, Colors[j])]))
         ELSE Some(None)
    ELSE None

\* ---- parse_reading_command
StartPhrases ==
    <<<<"r", "e", "a", "d", " ", "f", "r", "o", "m", " ", "h", "e", "r", "e">>,
      <<"s", "t", "a", "r", "t", " ", "r", "e", "a", "d", "i", "n", "g">>,
      <<"r", "e", "a", "d", " ", "t", "h", "i", "s">>,
      <<"r", "e", "a", "d", " ", "a", "l", "o", "u", "d">>,
      <<"r", "e", "a", "d">>,
      <<"p", "l", "a", "y">>>>

StopPhrases ==
    <<<<"s", "t", "o", "p", " ", "r", "e", "a", "d", "i", "n", "g">>,
      <<"s", "t", "o", "p">>,
      <<"p", "a", "u", "s", "e">>,
      <<"p", "a", "u", "s", "e", " ", "r", "e", "a", "d", "i", "n", "g">>,
      <<"q", "u", "i", "e", "t">>,
      <<"s", "i", "l", "e", "n", "c", "e">>>>

RepeatPhrases ==
    <<<<"r", "e", "p", "e", "a", "t">>,
      <<"s", "a", "y", " ", "a", "g", "a", "i", "n">>,
      <<"a", "g", "a", "i", "n">>,
      <<"r", "e", "p", "l", "a", "y">>>>

SkipPhrases ==
    <<<<"s", "k", "i", "p", " ", "s", "e", "c", "t", "i", "o", "n">>,
      <<"s", "k", "i", "p", " ", "t", "o", " ", "n", "e", "x", "t">>,
      <<"n", "e", "x", "t", " ", "s", "e", "c", "t", "i", "o", "n">>,
      <<"s", "k", "i", "p">>>>

BackPhrases ==
    <<<<"g", "o", " ", "b", "a", "c", "k">>,
      <<"b", "a", "c", "k">>,
      <<"p", "r", "e", "v", "i", "o", "u", "s">>,
      <<"r", "e", "w", "i", "n", "d">>>>

parse_reading_command(lower) ==
    IF StartsWithAny(lower, StartPhrases) THEN Some(StartReading)
    ELSE IF StartsWithAny(lower, StopPhrases) THEN Some(StopReadingCommand)
    ELSE IF StartsWithAny(lower, RepeatPhrases) THEN Some(Repeat)
    ELSE IF StartsWithAny(lower, SkipPhrases) THEN Some(SkipSection)
    ELSE IF InSeq(lower, BackPhrases) THEN Some(GoBack)
    ELSE IF \/ lower = <<"e", "x", "p", "l", "a", "i", "n", " ", "t", "h", "i", "s">>
            \/ lower = <<"e", "x", "p", "l", "a", "i", "n">>
            \/ starts_with(lower, <<"e", "x", "p", "l", "a", "i", "n", " ", "t", "h", "i", "s">>)
    THEN Some(ExplainSelection)
    ELSE None

\* ---- extract_number
\* digits.parse::<u32>(): None when the value does not fit a u32; acc is the
\* value of the digits read so far, in halves
RECURSIVE parse_u32_from(_, _)
parse_u32_from(digits, acc) ==
    IF digits = <<>> THEN Some(acc)
    ELSE LET lo10 == acc.lo * 10 + (IndexIn(Head(digits), Digits) - 1)
             hi10 == acc.hi * 10 + lo10 \div HALF
         IN  IF hi10 >= HALF THEN None
             ELSE parse_u32_from(Tail(digits), [hi |-> hi10, lo |-> lo10 % HALF])

parse_u32(digits) == parse_u32_from(digits, U32Of(0))

WordNumbers ==
    <<<<"o", "n", "e">>,
      <<"t", "w", "o">>,
      <<"t", "h", "r", "e", "e">>,
      <<"f", "o", "u", "r">>,
      <<"f", "i", "v", "e">>,
      <<"s", "i", "x">>,
      <<"s", "e", "v", "e", "n">>,
      <<"e", "i", "g", "h", "t">>,
      <<"n", "i", "n", "e">>,
      <<"t", "e", "n">>>>

\* all the digits of the text, read as one number; else the first number
\* word of the list that the text holds
extract_number(text) ==
    LET digits == SelectSeq(text, is_ascii_digit)
    IN  IF digits # <<>> THEN parse_u32(digits)
        ELSE IF \E k \in 1..Len(WordNumbers) : contains(text, WordNumbers[k])
        THEN Some(U32Of(CHOOSE k \in 1..Len(WordNumbers) :
                            /\ contains(text, WordNumbers[k])
                            /\ \A j \in 1..(k - 1) : ~contains(text, WordNumbers[j])))
        ELSE None

\* ---- parse_navigation_command
parse_navigation_command(lower) ==
    IF lower = <<"n", "e", "x", "t", " ", "p", "a", "g", "e">> \/ lower = <<"p", "a", "g", "e", " ", "d", "o", "w", "n">>
    THEN Some(NavigatePage("Next"))
    ELSE IF lower = <<"p", "r", "e", "v", "i", "o", "u", "s", " ", "p", "a", "g", "e">> \/ lower = <<"p", "a", "g", "e", " ", "u", "p">> \/ lower = <<"l", "a", "s", "t", " ", "p", "a", "g", "e">>
    THEN Some(NavigatePage("Previous"))
    ELSE IF /\ starts_with(lower, <<"g", "o", " ", "t", "o", " ", "p", "a", "g", "e">>) \/ starts_with(lower, <<"p", "a", "g", "e">>)
            /\ extract_number(lower) # None
    THEN Some(GoToPage(extract_number(lower)[1]))
    ELSE None

\* ---- extract_float
\* the length of the run of digits that starts at place i (from 1)
DigitRun(text, i) ==
    Cardinality({j \in i..Len(text) : \A m \in i..j : is_ascii_digit(text[m])})

\* the value of a run of digits, counted no further than ten times the
\* largest speed: every larger number is as much out of range
RECURSIVE DigitsValue(_, _)
DigitsValue(digits, acc) ==
    IF digits = <<>> THEN acc
    ELSE DigitsValue(Tail(digits),
                     Min(acc * 10 + (IndexIn(Head(digits), Digits) - 1), 10 * MAX_SPEED))

\* the first match of (\d+\.?\d*) parsed as f32, in hundredths: the digits
\* before the point and the first two after it (the texts tried have no
\* more than two decimals, so that no rounding of f32 decides a comparison)
extract_float(text) ==
    LET starts == {i \in 1..Len(text) : is_ascii_digit(text[i])}
    IN  IF starts = {} THEN None
        ELSE LET i == CHOOSE k \in starts : \A j \in starts : k <= j
                 n == DigitRun(text, i)
                 point == i + n <= Len(text) /\ text[i + n] = "."
                 m == IF point THEN DigitRun(text, i + n + 1) ELSE 0
                 decimals == SubSeq(text, i + n + 1, i + n + m) \o <<"0", "0">>
             IN  Some(100 * DigitsValue(SubSeq(text, i, i + n - 1), 0)
                      + DigitsValue(SubSeq(decimals, 1, 2), 0))

\* ---- parse_speed_command
SpeedUpPhrases ==
    <<<<"s", "p", "e", "e", "d", " ", "u", "p">>,
      <<"f", "a", "s", "t", "e", "r">>,
      <<"i", "n", "c", "r", "e", "a", "s", "e", " ", "s", "p", "e", "e", "d">>,
      <<"q", "u", "i", "c", "k", "e", "r">>>>

SlowDownPhrases ==
    <<<<"s", "l", "o", "w", " ", "d", "o", "w", "n">>,
      <<"s", "l", "o", "w", "e", "r">>,
      <<"d", "e", "c", "r", "e", "a", "s", "e", " ", "s", "p", "e", "e", "d">>,
      <<"r", "e", "d", "u", "c", "e", " ", "s", "p", "e", "e", "d">>>>

parse_speed_command(lower) ==
    IF StartsWithAny(lower, SpeedUpPhrases) THEN Some(AdjustSpeed(MIN_SPEED))
    ELSE IF StartsWithAny(lower, SlowDownPhrases) THEN Some(AdjustSpeed(0 - MIN_SPEED))
    ELSE IF /\ starts_with(lower, <<"s", "e", "t", " ", "s", "p", "e", "e", "d", " ", "t", "o">>) \/ starts_with(lower, <<"s", "p", "e", "e", "d">>)
            /\ extract_float(lower) # None
            /\ extract_float(lower)[1] >= MIN_SPEED
            /\ extract_float(lower)[1] <= MAX_SPEED
    THEN Some(SetSpeed(extract_float(lower)[1]))
    ELSE None

\* ---- parse_summarize_command
parse_summarize_command(lower) ==
    IF ~contains(lower, <<"s", "u", "m", "m", "a", "r">>) THEN None
    ELSE IF contains(lower, <<"d", "o", "c", "u", "m", "e", "n", "t">>) \/ contains(lower, <<"e", "n", "t", "i", "r", "e">>)
    THEN Some(Summarize("Document"))
    ELSE IF contains(lower, <<"s", "e", "c", "t", "i", "o", "n">>) THEN Some(Summarize("Section"))
    ELSE IF contains(lower, <<"p", "a", "g", "e">>) THEN Some(Summarize("Page"))
    ELSE Some(Summarize("Selection"))

\* ---- parse_define_command
parse_define_command(lower, original) ==
    IF \/ starts_with(lower, <<"d", "e", "f", "i", "n", "e">>)
       \/ starts_with(lower, <<"w", "h", "a", "t", " ", "d", "o", "e", "s">>)
       \/ starts_with(lower, <<"w", "h", "a", "t", " ", "i", "s">>)
    THEN LET words == split_whitespace(original)
         IN  IF words = <<>> THEN None
             ELSE IF trim_matches_not_alphanumeric(words[Len(words)]) = <<>> THEN None
             ELSE Some(trim_matches_not_alphanumeric(words[Len(words)]))
    ELSE None

\* ---- parse_translate_command
Languages ==
    <<<<<<"s", "p", "a", "n", "i", "s", "h">>, <<"e", "s">>>>,
      <<<<"f", "r", "e", "n", "c", "h">>, <<"f", "r">>>>,
      <<<<"g", "e", "r", "m", "a", "n">>, <<"d", "e">>>>,
      <<<<"c", "h", "i", "n", "e", "s", "e">>, <<"z", "h">>>>,
      <<<<"j", "a", "p", "a", "n", "e", "s", "e">>, <<"j", "a">>>>,
      <<<<"k", "o", "r", "e", "a", "n">>, <<"k", "o">>>>,
      <<<<"i", "t", "a", "l", "i", "a", "n">>, <<"i", "t">>>>,
      <<<<"p", "o", "r", "t", "u", "g", "u", "e", "s", "e">>, <<"p", "t">>>>,
      <<<<"r", "u", "s", "s", "i", "a", "n">>, <<"r", "u">>>>,
      <<<<"a", "r", "a", "b", "i", "c">>, <<"a", "r">>>>>>

parse_translate_command(lower) ==
    IF ~contains(lower, <<"t", "r", "a", "n", "s", "l", "a", "t", "e">>) THEN None
    ELSE IF \E k \in 1..Len(Languages) : contains(lower, Languages[k][1])
    THEN Some(Languages[CHOOSE k \in 1..Len(Languages) :
                          /\ contains(lower, Languages[k][1])
                          /\ \A j \in 1..(k - 1) : ~contains(lower, Languages[j][1])][2])
    ELSE IF /\ contains(lower, <<" ", "t", "o", " ">>)
            /\ trim(SliceFrom(lower, find(lower, <<" ", "t", "o", " ">>) + 4)) # <<>>
    THEN Some(trim(SliceFrom(lower, find(lower, <<" ", "t", "o", " ">>) + 4)))
    ELSE None

\* ---- parse_search_command
SearchPrefixes ==
    <<<<"s", "e", "a", "r", "c", "h", " ", "f", "o", "r">>,
      <<"s", "e", "a", "r", "c", "h">>,
      <<"f", "i", "n", "d">>,
      <<"l", "o", "o", "k", " ", "f", "o", "r">>>>

RECURSIVE parse_search_command_from(_, _, _)
parse_search_command_from(lower, original, k) ==
    IF k > Len(SearchPrefixes) THEN None
    ELSE IF /\ starts_with(lower, SearchPrefixes[k])
            /\ trim(SliceFrom(original, Len(SearchPrefixes[k]))) # <<>>
    THEN Some(trim(SliceFrom(original, Len(SearchPrefixes[k]))))
    ELSE parse_search_command_from(lower, original, k + 1)

parse_search_command(lower, original) == parse_search_command_from(lower, original, 1)

\* ---- parse_zoom_command
parse_zoom_command(lower) ==
    IF contains(lower, <<"z", "o", "o", "m", " ", "i", "n">>) \/ lower = <<"b", "i", "g", "g", "e", "r">> \/ lower = <<"l", "a", "r", "g", "e", "r">>
    THEN Some(Zoom("In"))
    ELSE IF contains(lower, <<"z", "o", "o", "m", " ", "o", "u", "t">>) \/ lower = <<"s", "m", "a", "l", "l", "e", "r">>
    THEN Some(Zoom("Out"))
    ELSE None

\* mutant: the summarize rule is tried before every other rule
ParseTrimmed_SummarizeFirst(text, lower) ==
    IF parse_summarize_command(lower) # None
    THEN parse_summarize_command(lower)[1]
    ELSE IF parse_note_command(lower, text) # None
    THEN NoteDown(parse_note_command(lower, text)[1])
    ELSE IF parse_question_command(lower, text) # None
    THEN AskQuestion(parse_question_command(lower, text)[1])
    ELSE IF parse_highlight_command(lower) # None
    THEN Highlight(parse_highlight_command(lower)[1])
    ELSE IF parse_reading_command(lower) # None
    THEN parse_reading_command(lower)[1]
    ELSE IF parse_navigation_command(lower) # None
    THEN parse_navigation_command(lower)[1]
    ELSE IF parse_speed_command(lower) # None
    THEN parse_speed_command(lower)[1]
    ELSE IF parse_define_command(lower, text) # None
    THEN Define(parse_define_command(lower, text)[1])
    ELSE IF parse_translate_command(lower) # None
    THEN Translate(parse_translate_command(lower)[1])
    ELSE IF parse_search_command(lower, text) # None
    THEN Search(parse_search_command(lower, text)[1])
    ELSE IF parse_zoom_command(lower) # None
    THEN parse_zoom_command(lower)[1]
    ELSE IF ends_with(text, <<"?">>)
    THEN AskQuestion(text)
    ELSE FreeText(text)

\* ---- VoiceCommandParser::parse on the trimmed text and its lower case
ParseTrimmed(text, lower) ==
    IF parse_note_command(lower, text) # None
    THEN NoteDown(parse_note_command(lower, text)[1])
    ELSE IF parse_question_command(lower, text) # None
    THEN AskQuestion(parse_question_command(lower, text)[1])
    ELSE IF parse_highlight_command(lower) # None
    THEN Highlight(parse_highlight_command(lower)[1])
    ELSE IF parse_reading_command(lower) # None
    THEN parse_reading_command(lower)[1]
    ELSE IF parse_navigation_command(lower) # None
    THEN parse_navigation_command(lower)[1]
    ELSE IF parse_speed_command(lower) # None
    THEN parse_speed_command(lower)[1]
    ELSE IF parse_summarize_command(lower) # None
    THEN parse_summarize_command(lower)[1]
    ELSE IF parse_define_command(lower, text) # None
    THEN Define(parse_define_command(lower, text)[1])
    ELSE IF parse_translate_command(lower) # None
    THEN Translate(parse_translate_command(lower)[1])
    ELSE IF parse_search_command(lower, text) # None
    THEN Search(parse_search_command(lower, text)[1])
    ELSE IF parse_zoom_command(lower) # None
    THEN parse_zoom_command(lower)[1]
    ELSE IF ends_with(text, <<"?">>)
    THEN AskQuestion(text)
    ELSE FreeText(text)

parse(text) == ParseTrimmed(trim(text), to_lowercase(trim(text)))

\* ---- the texts given to the parser
\* the decimal numeral of a u32, as format!("{}", n) writes it
RECURSIVE Decimal(_)
Decimal(n) ==
    LET mid == (n.hi % 10) * HALF + n.lo
        q == [hi |-> n.hi \div 10, lo |-> mid \div 10]
        d == <<Digits[(mid % 10) + 1]>>
    IN  IF q = U32Of(0) THEN d ELSE Decimal(q) \o d

Tokens ==
    {<<"s", "u", "m", "m", "a", "r", "i", "z", "e">>, <<"p", "a", "g", "e">>, <<"t", "h", "i", "s">>, <<"g", "o">>, <<"t", "o">>, <<"n", "e", "x", "t">>, <<"r", "e", "a", "d">>,
     <<"s", "t", "o", "p">>, <<"W", "h", "a", "t">>, <<"i", "s">>, <<"e", "n", "t", "r", "o", "p", "y", "?">>, <<"3", ":", "1", "?">>, <<"5">>, <<"d", "o", "c", "u", "m", "e", "n", "t">>,
     <<"s", "p", "e", "e", "d">>, <<"1", ".", "5">>, <<"h", "i", "g", "h", "l", "i", "g", "h", "t">>,
     <<"f", "a", "s", "t", "e", "r">>, <<"s", "l", "o", "w", "e", "r">>}

\* the texts of n tokens or fewer (and one at least), one space between two
RECURSIVE TokenPhrases(_)
TokenPhrases(n) ==
    IF n <= 1 THEN Tokens
    ELSE TokenPhrases(n - 1)
         \cup {p \o <<" ">> \o t : p \in TokenPhrases(n - 1), t \in Tokens}

GoToPageText(n) == <<"g", "o", " ", "t", "o", " ", "p", "a", "g", "e", " ">> \o Decimal(n)

\* a numeral one above u32::MAX
TooLargePage == <<"g", "o", " ", "t", "o", " ", "p", "a", "g", "e", " ", "4", "2", "9", "4", "9", "6", "7", "2", "9", "6">>

\* the numerals given after "set speed to", each with its value in hundredths
SpeedNumerals ==
    {<<<<"0">>, 0>>, <<<<"0", ".", "2">>, 20>>, <<<<"0", ".", "2", "4">>, 24>>, <<<<"0", ".", "2", "5">>, 25>>, <<<<"1">>, 100>>,
     <<<<"1", ".", "5">>, 150>>, <<<<"2", ".", "7", "5">>, 275>>, <<<<"3">>, 300>>, <<<<"3", ".", "0">>, 300>>,
     <<<<"3", ".", "0", "1">>, 301>>, <<<<"3", ".", "5">>, 350>>, <<<<"1", "0">>, 1000>>, <<<<"-", "1">>, 0 - 100>>}

SetSpeedText(numeral) == <<"s", "e", "t", " ", "s", "p", "e", "e", "d", " ", "t", "o", " ">> \o numeral

\* texts for the rules the vocabulary does not reach, and texts that two
\* rules match
OtherPhrases ==
    {<<"n", "o", "t", "e", " ", "b", "u", "y", " ", "m", "i", "l", "k">>, <<"n", "o", "t", "e", ":", " ", "b", "u", "y", " ", "m", "i", "l", "k">>, <<"n", "o", "t", "e">>, <<"R", "e", "m", "e", "m", "b", "e", "r", " ", "t", "o", " ", "z", "o", "o", "m", " ", "i", "n">>,
     <<"a", "s", "k", ":", " ", "w", "h", "y", " ", "s", "t", "o", "p">>, <<"h", "i", "g", "h", "l", "i", "g", "h", "t", " ", "t", "h", "i", "s", " ", "i", "n", " ", "y", "e", "l", "l", "o", "w">>, <<"p", "a", "u", "s", "e">>, <<"r", "e", "p", "e", "a", "t">>,
     <<"s", "k", "i", "p", " ", "s", "e", "c", "t", "i", "o", "n">>, <<"g", "o", " ", "b", "a", "c", "k">>, <<"e", "x", "p", "l", "a", "i", "n", " ", "t", "h", "i", "s">>, <<"p", "r", "e", "v", "i", "o", "u", "s", " ", "p", "a", "g", "e">>,
     <<"p", "a", "g", "e", " ", "t", "w", "o">>, <<"p", "a", "g", "e", " ", "p", "h", "o", "n", "e">>, <<"p", "a", "g", "e", " ", "t", "e", "n", " ", "o", "n", "e">>, <<"p", "a", "g", "e", " ", "e", "l", "e", "v", "e", "n">>, <<"p", "a", "g", "e", " ", "1", " ", "o", "f", " ", "2", "0">>,
     <<"g", "o", " ", "t", "o", " ", "p", "a", "g", "e", " ", "0", "0", "7">>, <<"s", "p", "e", "e", "d", " ", "u", "p">>, <<"S", "p", "e", "e", "d", " ", "U", "p", " ", "a", " ", "b", "i", "t">>, <<"s", "l", "o", "w", " ", "d", "o", "w", "n">>,
     <<"q", "u", "i", "c", "k", "e", "r", " ", "p", "l", "e", "a", "s", "e">>, <<"r", "e", "d", "u", "c", "e", " ", "s", "p", "e", "e", "d">>, <<"s", "p", "e", "e", "d", " ", "u", "p", " ", "t", "h", "e", " ", "h", "i", "g", "h", "l", "i", "g", "h", "t">>,
     <<"s", "u", "m", "m", "a", "r", "i", "z", "e">>, <<"s", "u", "m", "m", "a", "r", "i", "z", "e", " ", "t", "h", "e", " ", "e", "n", "t", "i", "r", "e", " ", "p", "a", "g", "e">>, <<"s", "u", "m", "m", "a", "r", "i", "z", "e", " ", "t", "h", "i", "s", " ", "s", "e", "c", "t", "i", "o", "n">>,
     <<"d", "e", "f", "i", "n", "e", " ", "e", "n", "t", "r", "o", "p", "y", ".">>, <<"d", "e", "f", "i", "n", "e", " ", "z", "o", "o", "m", " ", "i", "n">>, <<"t", "r", "a", "n", "s", "l", "a", "t", "e", " ", "t", "h", "i", "s", " ", "t", "o", " ", "s", "p", "a", "n", "i", "s", "h">>,
     <<"t", "r", "a", "n", "s", "l", "a", "t", "e", " ", "t", "o", " ", "k", "l", "i", "n", "g", "o", "n">>, <<"t", "r", "a", "n", "s", "l", "a", "t", "e">>, <<"s", "e", "a", "r", "c", "h", " ", "f", "o", "r", " ", "c", "a", "t", "s">>, <<"s", "e", "a", "r", "c", "h", " ", "f", "o", "r">>,
     <<"f", "i", "n", "d">>, <<"l", "o", "o", "k", " ", "f", "o", "r", " ", "z", "o", "o", "m", " ", "o", "u", "t">>, <<"z", "o", "o", "m", " ", "i", "n">>, <<"z", "o", "o", "m", " ", "o", "u", "t", " ", "p", "l", "e", "a", "s", "e">>, <<"b", "i", "g", "g", "e", "r">>,
     <<"s", "m", "a", "l", "l", "e", "r">>, <<"i", "s", " ", "i", "t", "?">>, <<"h", "e", "l", "l", "o">>}

Padded(p) == <<" ">> \o p \o <<" ", " ">>

Phrases ==
    TokenPhrases(MaxTokens)
        \cup {GoToPageText(n) : n \in Pages}
        \cup {Padded(GoToPageText(n)) : n \in Pages}
        \cup {SetSpeedText(numeral[1]) : numeral \in SpeedNumerals}
        \cup OtherPhrases
        \cup {TooLargePage, Padded(<<"W", "h", "a", "t", " ", "i", "s", " ", "e", "n", "t", "r", "o", "p", "y", "?">>), Padded(<<"n", "e", "x", "t", " ", "p", "a", "g", "e">>)}

\* a text is heard and nothing is parsed yet
InitParser ==
    /\ ManagerInit
    /\ EventsInit
    /\ LocksInit
    /\ ConfigInit
    /\ StopsInit
    /\ ResampleInit
    /\ CommandsInit
    /\ PiperInit
    /\ CaptureInit
    /\ AudioBufferNew(1)
    /\ ProvidersInit
    /\ ListeningInit
    /\ StreamInit
    /\ utterance \in Phrases
    /\ command = None

\* VoiceCommandParser::parse(text)
Parse ==
    /\ command = None
    /\ command' = Some(parse(utterance))
    /\ UNCHANGED <<utterance, notParser>>

\* ------------------------------------------------- providers and their factory
notProviders == <<commandVars, piperVars, parserVars, captureVars, bufferVars, listenVars, streamVars, resampleVars, stopsVars, configVars, lockVars, eventVars>>

\* the variants of STTProvider and of TTSProvider
STTProviders ==
    {"WhisperLocal", "Vosk", "OpenAIWhisper", "AWSTranscribe", "GoogleSpeech",
     "AzureSpeech", "Deepgram", "AssemblyAI"}

TTSProviders ==
    {"PiperLocal", "CoquiLocal", "ESpeakNG", "OpenAITTS", "AWSPolly", "GoogleTTS",
     "AzureTTS", "ElevenLabs"}

\* create_stt_provider: "Ok" stands for Ok(Box::new(provider)); model_exists
\* is what WhisperSTT::new finds at model_path
create_stt_provider(config, model_exists) ==
    IF config = "WhisperLocal"
    THEN IF model_exists THEN "Ok" ELSE "ModelNotFound"
    ELSE "ProviderNotAvailable"

\* mutant: a backend that is not implemented falls back to the local one
create_tts_provider_Fallback(config, model_exists) ==
    IF model_exists THEN "Ok" ELSE "ModelNotFound"

\* create_tts_provider; model_exists is what PiperTTS::new finds at model_path
create_tts_provider(config, model_exists) ==
    IF config = "PiperLocal"
    THEN IF model_exists THEN "Ok" ELSE "ModelNotFound"
    ELSE "ProviderNotAvailable"

\* VoiceManager::update_config
UpdateConfig ==
    /\ mgr.pc = "ready"
    /\ stt_provider' \in STTProviders
    /\ tts_provider' \in TTSProviders
    /\ UNCHANGED <<piper_path, synthesized>>
    /\ UNCHANGED <<managerVars, notProviders>>

\* VoiceManager::initialize with the providers the configuration names: `?`
\* returns the error of create_stt_provider before self.stt is assigned and
\* before create_tts_provider is called.  PiperTTS::new looks for the piper
\* executable (find_piper_executable) and keeps what it finds.
InitializeConfigured ==
    /\ mgr.pc = "ready"
    /\ \E stt_model \in BOOLEAN, tts_model \in BOOLEAN, found \in BOOLEAN :
         LET created_stt == create_stt_provider(stt_provider, stt_model)
             created_tts == create_tts_provider(tts_provider, tts_model)
         IN  IF created_stt # "Ok"
             THEN /\ Returns(created_stt)
                  /\ UNCHANGED <<stt, tts, stt_is_listening, piper_path>>
             ELSE /\ stt' = TRUE
                  /\ stt_is_listening' = FALSE
                  /\ IF created_tts = "Ok"
                     THEN tts' = TRUE /\ piper_path' = found /\ Returns("Ok")
                     ELSE UNCHANGED <<tts, piper_path>> /\ Returns(created_tts)
    /\ UNCHANGED <<state, current_position, syncs, since>>
    /\ UNCHANGED <<stt_provider, tts_provider, synthesized>>
    /\ UNCHANGED notProviders

\* VoiceManager::is_initialized
is_initialized == stt /\ tts

AudioData(samples, sample_rate, channels) ==
    [samples |-> samples, sample_rate |-> sample_rate, channels |-> channels]

\* the texts synthesized: empty, blank and with a word
SpokenTexts == {<<>>, <<" ">>, <<"a">>, <<" ", "a", " ">>}

\* what the piper process leaves: None when it cannot be spawned, fails or
\* writes no valid WAV file, else the AudioData that read_wav_file reads
CliOutcomes ==
    {None} \cup {Some(AudioData(s, r, 1)) : s \in {<<>>, <<1, 2>>}, r \in {16000, 22050}}

\* PiperTTS::synthesize_with_cli
synthesize_with_cli(text, cli) ==
    IF ~piper_path THEN [outcome |-> "ProviderNotAvailable"]
    ELSE IF cli = None THEN [outcome |-> "TTSError"]
    ELSE [outcome |-> "Ok", audio |-> cli[1]]

\* PiperTTS::synthesize (synthesize_with_library calls synthesize_with_cli
\* with and without the piper-lib feature)
synthesize(text, cli) ==
    IF trim(text) = <<>>
    THEN [outcome |-> "Ok", audio |-> AudioData(<<>>, 22050, 1)]
    ELSE synthesize_with_cli(text, cli)

\* synthesize on the provider the manager holds
Synthesize ==
    /\ mgr.pc = "ready"
    /\ tts
    /\ \E text \in SpokenTexts, cli \in CliOutcomes :
         synthesized' = [text |-> text, result |-> synthesize(text, cli)]
    /\ UNCHANGED <<stt_provider, tts_provider, piper_path>>
    /\ UNCHANGED <<managerVars, notProviders>>

\* --------------------------------------------------- WhisperSTT listening
\* the methods of a WhisperSTT as WhisperSTT::new returns it; stt_is_listening
\* is its is_listening flag, one AtomicBool shared by every task it spawns
notListening == <<stt, tts, state, current_position, mgr, syncs, lastResult, since,
                  commandVars, piperVars, parserVars, captureVars, bufferVars,
                  providerVars, streamVars, resampleVars, stopsVars, configVars, lockVars, eventVars>>

\* a transcription task: stopped once a stop_listening has returned since it
\* was spawned, late_polls the polls it made since then (counted to MaxPolls)
ListenTask(pc, stopped, late_polls) ==
    [pc |-> pc, stopped |-> stopped, late_polls |-> late_polls]

\* WhisperSTT::start_listening: a new AudioCapture never refuses
\* start_capture; the task spawned holds a clone of is_listening
WhisperStartListening ==
    /\ Len(listen_tasks) < MaxListens
    /\ IF stt_is_listening
       THEN /\ listen_result' = "InvalidState"
            /\ UNCHANGED <<stt_is_listening, listen_tasks>>
       ELSE /\ stt_is_listening' = TRUE
            /\ listen_tasks' = Append(listen_tasks, ListenTask("polling", FALSE, 0))
            /\ listen_result' = "Ok"
    /\ UNCHANGED notListening

\* WhisperSTT::stop_listening: the flag is cleared, the capture is stopped
WhisperStopListening ==
    /\ stt_is_listening' = FALSE
    /\ listen_tasks' = [i \in DOMAIN listen_tasks |->
                           [listen_tasks[i] EXCEPT !.stopped = TRUE]]
    /\ listen_result' = "Ok"
    /\ UNCHANGED notListening

\* one evaluation of `while is_listening.load(Ordering::SeqCst)` by a task:
\* while the flag is set the task goes round its select! once more (audio, or
\* the sleep of 100 ms); once it is clear the task handles what audio is left
\* and ends, which drops tx and closes its transcription stream
ListenPolled(task) ==
    IF stt_is_listening
    THEN [task EXCEPT !.late_polls =
                          IF task.stopped THEN Min(task.late_polls + 1, MaxPolls) ELSE 0]
    ELSE [task EXCEPT !.pc = "ended"]

ListenPoll(i) ==
    /\ i \in DOMAIN listen_tasks
    /\ listen_tasks[i].pc = "polling"
    /\ listen_tasks' = [listen_tasks EXCEPT ![i] = ListenPolled(listen_tasks[i])]
    /\ UNCHANGED <<stt_is_listening, listen_result>>
    /\ UNCHANGED notListening

\* ------------------------------------------------ PiperTTS::synthesize_stream
\* one call of synthesize_stream, on a provider whose rate was set before
\* (every call has its own channel and task: two streams share nothing)
notStream == <<managerVars, commandVars, parserVars, captureVars, bufferVars,
               providerVars, listenVars, resampleVars, stopsVars, configVars, lockVars, eventVars>>

\* chunk_size / 4: an f32 has 4 bytes
samples_per_chunk == CHUNK_SIZE \div 4

\* the audio that self.synthesize(text) returns when it returns Ok, as the
\* number of its samples and its sample rate: nothing at 22050 Hz for a blank
\* text, else what the piper process wrote
StreamAudios(text) ==
    IF trim(text) = <<>>
    THEN {[len |-> 0, sample_rate |-> 22050]}
    ELSE {[len |-> k * samples_per_chunk + r, sample_rate |-> rate] :
             k \in 0..(MaxChunks - 1), r \in {0, 1, samples_per_chunk},
             rate \in {16000, 22050}}

\* (sample as f32 * (1000.0 / sample_rate as f32)) as u64; the integer form
\* gives the f32 result for these rates and up to 4096 samples
SampleMs(sample, sample_rate) == (sample * 1000) \div sample_rate

\* a PiperTTS whose rate is one that set_rate leaves
InitStream ==
    /\ ManagerInit
    /\ EventsInit
    /\ LocksInit
    /\ ConfigInit
    /\ StopsInit
    /\ ResampleInit
    /\ CommandsInit
    /\ ParserInit
    /\ CaptureInit
    /\ AudioBufferNew(1)
    /\ ProvidersInit
    /\ ListeningInit
    /\ StreamInit
    /\ speaking_rate \in {clamp(rate, MIN_SPEED, MAX_SPEED) : rate \in Quarters}
    /\ timed_text = <<>>
    /\ last_timings = <<>>

\* synthesize_stream(text) when synthesize returns Ok: the word timings are
\* estimated at the rate of the provider and the task is spawned
SynthesizeStream ==
    /\ stream_task.pc = "none"
    /\ \E text \in TimedTexts :
         \E audio \in StreamAudios(text) :
            stream_task' = [pc |-> "streaming", i |-> 0, len |-> audio.len,
                            sample_rate |-> audio.sample_rate,
                            timings |-> TimingsOf(text, speaking_rate)]
    /\ stream_queue' = <<>>
    /\ stream_received' = <<>>
    /\ stream_rx_open' = TRUE
    /\ UNCHANGED <<speaking_rate, timed_text, last_timings>>
    /\ UNCHANGED notStream

\* mutant: the last chunk is sent as any other
AudioChunkAt_NeverFinal(task) ==
    LET start_sample == task.i * samples_per_chunk
        end_sample == Min(start_sample + samples_per_chunk, task.len)
        start_ms == SampleMs(start_sample, task.sample_rate)
        end_ms == SampleMs(end_sample, task.sample_rate)
    IN  [data |-> end_sample - start_sample,
         word_timings |-> SelectSeq(task.timings,
                                    LAMBDA w : w.start_ms >= start_ms /\ w.start_ms < end_ms),
         is_final |-> FALSE,
         start_ms |-> start_ms,
         end_ms |-> end_ms]

\* the AudioChunk of the i-th chunk of audio.samples.chunks(samples_per_chunk),
\* i from 0; data is the number of its samples, start_ms and end_ms are the
\* window the task filters the word timings with (no fields of AudioChunk)
AudioChunkAt(task) ==
    LET start_sample == task.i * samples_per_chunk
        end_sample == Min(start_sample + samples_per_chunk, task.len)
        start_ms == SampleMs(start_sample, task.sample_rate)
        end_ms == SampleMs(end_sample, task.sample_rate)
    IN  [data |-> end_sample - start_sample,
         word_timings |-> SelectSeq(task.timings,
                                    LAMBDA w : w.start_ms >= start_ms /\ w.start_ms < end_ms),
         is_final |-> end_sample >= task.len,
         start_ms |-> start_ms,
         end_ms |-> end_ms]

\* one round of the loop of the task: the next chunk is sent, or the loop is
\* over (no chunk is left, or the receiver is gone) and tx is dropped
StreamSend ==
    /\ stream_task.pc = "streaming"
    /\ Len(stream_queue) < STREAM_CHANNEL_CAPACITY
    /\ IF stream_task.i * samples_per_chunk >= stream_task.len \/ ~stream_rx_open
       THEN /\ stream_task' = [stream_task EXCEPT !.pc = "ended"]
            /\ UNCHANGED stream_queue
       ELSE /\ stream_queue' = Append(stream_queue, AudioChunkAt(stream_task))
            /\ stream_task' = [stream_task EXCEPT !.i = @ + 1]
    /\ UNCHANGED <<stream_received, stream_rx_open>>
    /\ UNCHANGED piperVars
    /\ UNCHANGED notStream

\* rx.recv() by the consumer
StreamRecv ==
    /\ stream_rx_open
    /\ stream_queue # <<>>
    /\ stream_received' = Append(stream_received, Head(stream_queue))
    /\ stream_queue' = Tail(stream_queue)
    /\ UNCHANGED <<stream_task, stream_rx_open>>
    /\ UNCHANGED piperVars
    /\ UNCHANGED notStream

\* the consumer drops the receiver
StreamDropReceiver ==
    /\ stream_rx_open
    /\ stream_task.pc # "none"
    /\ stream_rx_open' = FALSE
    /\ stream_queue' = <<>>
    /\ UNCHANGED <<stream_task, stream_received>>
    /\ UNCHANGED piperVars
    /\ UNCHANGED notStream

\* ------------------------------------------------------------- resample
notResample == <<managerVars, commandVars, piperVars, parserVars, captureVars,
                 bufferVars, providerVars, listenVars, streamVars, stopsVars, configVars, lockVars, eventVars>>

\* the rates tried, in Hz
Rates == {100 * k : k \in 1..MaxRate}

\* resample(samples, from_rate, to_rate).  A sample of the result is given in
\* units of 1/to_rate (the value times to_rate), which makes the linear
\* interpolation whole: frac is (i * from_rate mod to_rate) / to_rate.
\* new_len is (len as f32 * ratio) as usize and idx_floor is (i / ratio).floor():
\* the integer forms give the f32 results for rates of 100..600 Hz in steps
\* of 100 and up to 7 samples; the interpolated values are exact here and
\* rounded to f32 in the program.
resample(samples, from_rate, to_rate) ==
    IF from_rate = to_rate THEN [k \in 1..Len(samples) |-> samples[k] * to_rate]
    ELSE LET new_len == (Len(samples) * to_rate) \div from_rate
         IN  [k \in 1..new_len |->
                LET idx_floor == ((k - 1) * from_rate) \div to_rate
                    idx_ceil == Min(idx_floor + 1, Len(samples) - 1)
                    frac == ((k - 1) * from_rate) % to_rate
                IN  samples[idx_floor + 1] * (to_rate - frac) + samples[idx_ceil + 1] * frac]

\* samples and rates are given and nothing is resampled yet
InitResample ==
    /\ ManagerInit
    /\ EventsInit
    /\ LocksInit
    /\ ConfigInit
    /\ StopsInit
    /\ CommandsInit
    /\ PiperInit
    /\ ParserInit
    /\ CaptureInit
    /\ AudioBufferNew(1)
    /\ ProvidersInit
    /\ ListeningInit
    /\ StreamInit
    /\ resample_args \in [samples : StringsUpTo(Samples, MaxResample),
                          from_rate : Rates, to_rate : Rates]
    /\ resampled = None

Resample ==
    /\ resampled = None
    /\ resampled' = Some(resample(resample_args.samples, resample_args.from_rate,
                                  resample_args.to_rate))
    /\ UNCHANGED resample_args
    /\ UNCHANGED notResample

\* ------------------------------- the record of stop_reading and read_content
\* The code keeps no record of which session a stop_reading meant: stops is
\* kept beside the manager to state what a stopped session may still do.
notStops == <<commandVars, piperVars, parserVars, captureVars, bufferVars,
              providerVars, listenVars, streamVars, resampleVars, configVars, lockVars, eventVars>>

\* a stop_reading returns Ok: every task that has not ended is stopped, at
\* its word_index of now unless an earlier stop is still in force
RecordStop ==
    stops' = [i \in 1..MaxSessions |->
                IF i \in Sessions /\ syncs[i].pc # "done"
                THEN [stopped |-> TRUE,
                      stopped_at |-> IF stops[i].stopped_at >= 0 THEN stops[i].stopped_at
                                     ELSE syncs[i].word_index]
                ELSE stops[i]]

\* a read_content writes Reading: no stop is in force any more
RecordRead ==
    stops' = [i \in 1..MaxSessions |-> [stops[i] EXCEPT !.stopped_at = -1]]

\* stop_reading, recorded
StopReadingRecorded ==
    /\ StopReadingCall
    /\ IF tts THEN RecordStop ELSE UNCHANGED stops
    /\ UNCHANGED notStops

\* read_content up to the first release of the state lock, recorded
ReadContentRecorded ==
    /\ \E text \in Texts, p \in StartPositions : ReadContentOnCall(text, p)
    /\ IF tts THEN RecordRead ELSE UNCHANGED stops
    /\ UNCHANGED notStops

\* ----------------------------------------------------- set_voice_config
notConfig == <<managerVars, piperVars, parserVars, captureVars, bufferVars,
               providerVars, listenVars, streamVars, resampleVars, stopsVars, lockVars, eventVars>>

\* the reading_speed of the configs given to set_voice_config, in hundredths
ConfigSpeeds == {MIN_SPEED, 2 * DEFAULT_READING_SPEED}

\* set_voice_config: "Update stored config", under the config lock, which is
\* released before the manager lock is asked for
SetVoiceConfigStore ==
    /\ Len(config_calls) < MaxConfigCalls
    /\ \E speed \in ConfigSpeeds :
         /\ reading_speed' = speed
         /\ config_calls' = Append(config_calls, speed)
    /\ UNCHANGED <<manager_reading_speed, response>>
    /\ UNCHANGED notConfig

\* set_voice_config: "Update manager", by whichever waiting call gets the
\* manager lock
SetVoiceConfigUpdate ==
    /\ \E k \in DOMAIN config_calls :
         /\ manager_reading_speed' = config_calls[k]
         /\ config_calls' = [j \in 1..(Len(config_calls) - 1) |->
                               IF j < k THEN config_calls[j] ELSE config_calls[j + 1]]
    /\ UNCHANGED <<reading_speed, response>>
    /\ UNCHANGED notConfig

\* ------------------------------------------- the locks of the commands
notLocks == <<managerVars, commandVars, piperVars, parserVars, captureVars,
              bufferVars, providerVars, listenVars, streamVars, resampleVars,
              stopsVars, configVars, eventVars>>

\* VoiceManagerState.config (RwLock), .manager (Mutex), the two session maps
\* (Mutex), and VoiceManager.state and .current_position (RwLock)
Locks == {"config", "manager", "transcription_sessions", "reading_sessions",
          "state", "current_position"}

\* mutant: the event task asks for the manager while it holds the session map
EventTaskProgram_LocksManager(sessions) ==
    << <<"lock", sessions>>, <<"lock", "manager">>, <<"unlock", "manager">>,
       <<"unlock", sessions>> >>

\* the task spawned by start_voice_listening and by start_reading: it takes
\* the receiver out of the session map, then only receives and emits
EventTaskProgram(sessions) ==
    << <<"lock", sessions>>, <<"unlock", sessions>> >>

\* the synchronizer task of read_content, one round of its loop and its end:
\* it reads the state, writes the position, sends, and writes the state
SynchronizerProgram ==
    << <<"read", "state">>, <<"unlock", "state">>,
       <<"write", "current_position">>, <<"unlock", "current_position">>,
       <<"write", "state">>, <<"unlock", "state">> >>

\* what a handler or task does with the locks, in the order of its code:
\* "lock", "read" and "write" wait for a lock, "unlock" is the drop of the
\* guard, "try" a provider call or playback, which may fail and make the
\* handler return at once (every guard is dropped), "spawn" a tokio::spawn.
\* is_voice_initialized and parse_voice_command do what initialize_voice
\* does with the locks, get_word_timings what get_voice_config does, and
\* stop_voice_listening what stop_reading does.
Program(kind) ==
    CASE kind = "get_voice_config" ->
           << <<"read", "config">>, <<"unlock", "config">> >>
      [] kind = "set_voice_config" ->
           << <<"write", "config">>, <<"unlock", "config">>,
              <<"lock", "manager">>, <<"unlock", "manager">> >>
      [] kind = "initialize_voice" ->
           << <<"lock", "manager">>, <<"try">>, <<"unlock", "manager">> >>
      [] kind = "get_voice_state" ->
           << <<"lock", "manager">>, <<"read", "state">>, <<"unlock", "state">>,
              <<"unlock", "manager">> >>
      [] kind = "get_reading_position" ->
           << <<"lock", "manager">>, <<"read", "current_position">>,
              <<"unlock", "current_position">>, <<"unlock", "manager">> >>
      [] kind = "start_voice_listening" ->
           << <<"lock", "manager">>, <<"write", "state">>, <<"unlock", "state">>,
              <<"try">>,
              <<"lock", "transcription_sessions">>, <<"unlock", "transcription_sessions">>,
              <<"spawn", "transcription_events">>, <<"unlock", "manager">> >>
      [] kind = "speak_text" ->
           << <<"lock", "manager">>, <<"write", "state">>, <<"unlock", "state">>,
              <<"try">>, <<"write", "state">>, <<"unlock", "state">>,
              <<"unlock", "manager">> >>
      [] kind = "start_reading" ->
           << <<"lock", "manager">>, <<"write", "state">>, <<"unlock", "state">>,
              <<"write", "current_position">>, <<"unlock", "current_position">>,
              <<"try">>, <<"spawn", "synchronizer">>,
              <<"lock", "reading_sessions">>, <<"unlock", "reading_sessions">>,
              <<"spawn", "reading_events">>, <<"unlock", "manager">> >>
      [] kind = "stop_reading" ->
           << <<"lock", "manager">>, <<"write", "state">>, <<"unlock", "state">>,
              <<"unlock", "manager">> >>
      [] kind = "set_reading_speed" ->
           << <<"write", "config">>, <<"lock", "manager">>, <<"unlock", "manager">>,
              <<"unlock", "config">> >>
      [] kind = "process_voice_command" ->
           << <<"write", "config">>, <<"unlock", "config">> >>
      [] kind = "transcription_events" -> EventTaskProgram("transcription_sessions")
      [] kind = "reading_events" -> EventTaskProgram("reading_sessions")
      [] kind = "synchronizer" -> SynchronizerProgram

\* the handlers of commands/voice.rs that take a lock
Handlers ==
    {"get_voice_config", "set_voice_config", "initialize_voice", "get_voice_state",
     "get_reading_position", "start_voice_listening", "speak_text", "start_reading",
     "stop_reading", "set_reading_speed", "process_voice_command"}

\* a handler or task at the start of its code
Started(kind) == [kind |-> kind, pc |-> 1, held |-> {}]

NotCalled == [kind |-> "none", pc |-> 1, held |-> {}]

IsRunning(p) == p.kind # "none" /\ p.pc <= Len(Program(p.kind))

HasReturned(p) == p.kind # "none" /\ p.pc > Len(Program(p.kind))

\* what p does next
Op(p) == Program(p.kind)[p.pc]

IsAcquire(op) == op[1] \in {"lock", "read", "write"}

\* the guards held on a lock, by handlers and tasks
Guards(lock) ==
    {g \in UNION ({lock_calls[k].held : k \in DOMAIN lock_calls}
                  \cup {lock_tasks[t].held : t \in DOMAIN lock_tasks}) : g[2] = lock}

\* a Mutex and the write half of a RwLock are exclusive, readers share
CanAcquire(op) ==
    IF op[1] = "read" THEN \A g \in Guards(op[2]) : g[1] = "read"
    ELSE Guards(op[2]) = {}

\* p after its next step, for every step but a spawn
Stepped(p) ==
    LET op == Op(p)
    IN  IF IsAcquire(op)
        THEN IF CanAcquire(op)
             THEN {[p EXCEPT !.pc = p.pc + 1, !.held = p.held \cup {<<op[1], op[2]>>}]}
             ELSE {}
        ELSE IF op[1] = "unlock"
        THEN {[p EXCEPT !.pc = p.pc + 1, !.held = {g \in p.held : g[2] # op[2]}]}
        ELSE IF op[1] = "try"
        THEN {[p EXCEPT !.pc = p.pc + 1],
              [p EXCEPT !.pc = Len(Program(p.kind)) + 1, !.held = {}]}
        ELSE {}

\* a command is called
CallHandler(k) ==
    /\ lock_calls[k].kind = "none"
    /\ \E kind \in Handlers : lock_calls' = [lock_calls EXCEPT ![k] = Started(kind)]
    /\ UNCHANGED lock_tasks
    /\ UNCHANGED notLocks

\* a handler takes its next step
HandlerStep(k) ==
    /\ IsRunning(lock_calls[k])
    /\ IF Op(lock_calls[k])[1] = "spawn"
       THEN /\ lock_tasks' = Append(lock_tasks, Started(Op(lock_calls[k])[2]))
            /\ lock_calls' = [lock_calls EXCEPT ![k].pc = lock_calls[k].pc + 1]
       ELSE /\ \E q \in Stepped(lock_calls[k]) : lock_calls' = [lock_calls EXCEPT ![k] = q]
            /\ UNCHANGED lock_tasks
    /\ UNCHANGED notLocks

\* a spawned task takes its next step
TaskStep(t) ==
    /\ t \in DOMAIN lock_tasks
    /\ IsRunning(lock_tasks[t])
    /\ \E q \in Stepped(lock_tasks[t]) : lock_tasks' = [lock_tasks EXCEPT ![t] = q]
    /\ UNCHANGED lock_calls
    /\ UNCHANGED notLocks

\* ----------------------------------- start_reading and its event tasks
notEvents == <<managerVars, commandVars, piperVars, parserVars, captureVars,
               bufferVars, providerVars, listenVars, streamVars, resampleVars,
               stopsVars, configVars, lockVars>>

\* the document ids given to start_reading
DocumentIds == {"d1", "d2"}

\* start_reading up to the end of "Store the receiver": it holds the manager
\* lock, read_content returned Ok(rx), and sessions.insert(document_id, rx)
\* replaces what the map held for that id.  (When read_content fails the
\* handler returns with nothing changed.)
StartReadingInsert ==
    /\ read_call = None
    /\ Len(reads) < MaxReads
    /\ \E document_id \in DocumentIds :
         /\ reads' = Append(reads, document_id)
         /\ reading_sessions' = [reading_sessions EXCEPT ![document_id] = Len(reads) + 1]
         /\ read_call' = Some(document_id)
    /\ UNCHANGED <<event_tasks, ended_streams, complete_events>>
    /\ UNCHANGED notEvents

\* the event task before its first step
EventTask(document_id, call) ==
    [doc_id |-> document_id, call |-> call, pc |-> "remove", rx |-> 0]

\* start_reading: tokio::spawn of the event task, then Ok(()) and the manager
\* lock is released
StartReadingSpawn ==
    /\ read_call # None
    /\ event_tasks' = Append(event_tasks, EventTask(read_call[1], Len(reads)))
    /\ read_call' = None
    /\ UNCHANGED <<reading_sessions, reads, ended_streams, complete_events>>
    /\ UNCHANGED notEvents

\* the event task: sessions.remove(&doc_id_clone); with None it ends at once
EventTaskRemove(t) ==
    /\ event_tasks[t].pc = "remove"
    /\ event_tasks' = [event_tasks EXCEPT
                         ![t].rx = reading_sessions[event_tasks[t].doc_id],
                         ![t].pc = IF reading_sessions[event_tasks[t].doc_id] = 0
                                   THEN "done" ELSE "recv"]
    /\ reading_sessions' = [reading_sessions EXCEPT ![event_tasks[t].doc_id] = 0]
    /\ UNCHANGED <<reads, read_call, ended_streams, complete_events>>
    /\ UNCHANGED notEvents

\* the synchronizer of a read_content has ended and its positions are
\* received or dropped: recv() on its receiver returns None from now on
StreamEnds ==
    /\ \E rx \in (1..Len(reads)) \ ended_streams : ended_streams' = ended_streams \cup {rx}
    /\ UNCHANGED <<reading_sessions, reads, read_call, event_tasks, complete_events>>
    /\ UNCHANGED notEvents

\* the event task: the while let loop ends, voice:reading_complete is emitted
EventTaskComplete(t) ==
    /\ event_tasks[t].pc = "recv"
    /\ event_tasks[t].rx \in ended_streams
    /\ complete_events' = [complete_events EXCEPT ![event_tasks[t].doc_id] = @ + 1]
    /\ event_tasks' = [event_tasks EXCEPT ![t].pc = "done"]
    /\ UNCHANGED <<reading_sessions, reads, read_call, ended_streams>>
    /\ UNCHANGED notEvents

\* --------------------------------- process_voice_command of a parsed text
\* the current positions on a page from 1 on, and none
PositionsFromOne ==
    {current \in CommandPositions : current = None \/ Less(U32Of(0), current[1].page)}

\* process_voice_command, VoiceCommand::GoToPage { page }
ProcessGoToPage(page, current) ==
    /\ Responds(<<"Going to page ", page>>, TRUE,
                Some([type |-> "ScrollTo",
                      position |-> [unwrap_or_default(current) EXCEPT !.page = page]]))
    /\ UNCHANGED <<reading_speed, manager_reading_speed>>
    /\ UNCHANGED notCommands

\* process_voice_command of a command that is no page command: of its
\* response only this is kept, that it holds no ScrollTo
ProcessOther(cmd) ==
    /\ Responds(<<cmd.type>>, FALSE, None)
    /\ UNCHANGED <<reading_speed, manager_reading_speed>>
    /\ UNCHANGED notCommands

\* process_voice_command(parse(text), current_position)
ProcessParsed ==
    /\ command # None
    /\ response.outcome = "none"
    /\ \E current \in PositionsFromOne :
         IF command[1].type = "GoToPage"
         THEN ProcessGoToPage(command[1].page, current)
         ELSE IF command[1].type = "NavigatePage"
         THEN ProcessNavigatePage(command[1].direction, current)
         ELSE ProcessOther(command[1])

\* ------------------------------------------------------ specifications
Next ==
    \/ Initialize
    \/ StartListening
    \/ StopListening
    \/ ReadContent
    \/ ReadContentStore
    \/ ReadContentSpawn
    \/ StopReading
    \/ Speak
    \/ SpeakFinish
    \/ \E i \in Sessions : SyncCheck(i)
    \/ \E i \in Sessions : SyncStore(i)
    \/ \E i \in Sessions : SyncSend(i)
    \/ \E i \in Sessions : SyncFinish(i)
    \/ \E i \in Sessions : Recv(i)

Spec == Init /\ [][Next]_vars

\* the engine with one reading session of a text longer than the position
\* channel, its receiver received from or dropped at any time
ReadContentLong ==
    /\ syncs = <<>>
    /\ \E text \in LongTexts, p \in StartPositions : ReadContentOn(text, p)

NextChannel ==
    \/ Initialize
    \/ ReadContentLong
    \/ ReadContentStore
    \/ ReadContentSpawn
    \/ \E i \in Sessions : SyncCheck(i)
    \/ \E i \in Sessions : SyncStore(i)
    \/ \E i \in Sessions : SyncSend(i)
    \/ \E i \in Sessions : SyncFinish(i)
    \/ \E i \in Sessions : Recv(i)
    \/ \E i \in Sessions : DropReceiver(i)

SpecChannel == Init /\ [][NextChannel]_vars

\* the commands that set speeds and turn pages, called in any order
NextCommands ==
    \/ AdjustSpeedCommand
    \/ SetSpeedCommand
    \/ SetReadingSpeed
    \/ NavigatePageCommand

SpecCommands == Init /\ [][NextCommands]_vars

\* a PiperTTS whose rate is set and whose word timings are asked for
NextPiper ==
    \/ PiperSetRate
    \/ GetWordTimings

SpecPiper == Init /\ [][NextPiper]_vars

\* an AudioCapture started and stopped in any order, and its threads
NextCapture ==
    \/ start_capture
    \/ stop_capture
    \/ \E i \in DOMAIN capture_threads : CaptureLoopOpen(i)
    \/ \E i \in DOMAIN capture_threads : CaptureLoopPoll(i)

SpecCapture == Init /\ [][NextCapture]_vars

\* an AudioBuffer created, written and cleared in any order
NextBuffer ==
    \/ NewAudioBuffer
    \/ AudioBufferWrite
    \/ AudioBufferClear

SpecBuffer == Init /\ [][NextBuffer]_vars

NextParser == Parse

SpecParser == InitParser /\ [][NextParser]_vars

NextProviders ==
    \/ UpdateConfig
    \/ InitializeConfigured
    \/ Synthesize

SpecProviders == Init /\ [][NextProviders]_vars

NextListening ==
    \/ WhisperStartListening
    \/ WhisperStopListening
    \/ \E i \in 1..MaxListens : ListenPoll(i)

SpecListening == Init /\ [][NextListening]_vars

\* every transcription task is scheduled again and again: its select! waits
\* 100 ms at most
LiveSpecListening ==
    SpecListening /\ \A i \in 1..MaxListens : WF_vars(ListenPoll(i))

NextStream ==
    \/ SynthesizeStream
    \/ StreamSend
    \/ StreamRecv
    \/ StreamDropReceiver

SpecStream == InitStream /\ [][NextStream]_vars

NextResample == Resample

SpecResample == InitResample /\ [][NextResample]_vars

\* the manager and its tasks with the stops recorded
NextStops ==
    \/ Initialize
    \/ StartListening
    \/ StopListening
    \/ ReadContentRecorded
    \/ ReadContentStore
    \/ ReadContentSpawn
    \/ StopReadingRecorded
    \/ Speak
    \/ SpeakFinish
    \/ \E i \in Sessions : SyncCheck(i)
    \/ \E i \in Sessions : SyncStore(i)
    \/ \E i \in Sessions : SyncSend(i)
    \/ \E i \in Sessions : SyncFinish(i)
    \/ \E i \in Sessions : Recv(i)

SpecStops == Init /\ [][NextStops]_vars

\* the commands that write a configuration
NextConfig ==
    \/ SetVoiceConfigStore
    \/ SetVoiceConfigUpdate
    \/ SetReadingSpeed
    \/ AdjustSpeedCommand
    \/ SetSpeedCommand

SpecConfig == Init /\ [][NextConfig]_vars

\* the commands and the tasks they spawn, as far as the locks go
NextLocks ==
    \/ \E k \in 1..MaxCalls : CallHandler(k)
    \/ \E k \in 1..MaxCalls : HandlerStep(k)
    \/ \E t \in 1..(2 * MaxCalls) : TaskStep(t)

SpecLocks == Init /\ [][NextLocks]_vars

\* tokio runs every handler and task that can go on; a Mutex or RwLock that
\* is free is given to one of those waiting
LiveSpecLocks ==
    /\ SpecLocks
    /\ \A k \in 1..MaxCalls : WF_vars(HandlerStep(k))
    /\ \A t \in 1..(2 * MaxCalls) : WF_vars(TaskStep(t))

\* start_reading commands, one after the other, and their event tasks
NextEvents ==
    \/ StartReadingInsert
    \/ StartReadingSpawn
    \/ \E t \in DOMAIN event_tasks : EventTaskRemove(t)
    \/ StreamEnds
    \/ \E t \in DOMAIN event_tasks : EventTaskComplete(t)

SpecEvents == Init /\ [][NextEvents]_vars

\* a text is parsed and the command processed
NextPages ==
    \/ Parse
    \/ ProcessParsed

SpecPages == InitParser /\ [][NextPages]_vars

\* every spawned task is scheduled again and again, and the holder of a
\* receiver keeps receiving
Fairness ==
    \A i \in 1..MaxSessions :
        /\ WF_vars(i \in Sessions /\ SyncStep(i))
        /\ WF_vars(i \in Sessions /\ Recv(i))

LiveSpec == Init /\ [][Next]_vars /\ Fairness

\* VoiceManager::get_reading_position
get_reading_position == current_position

\* ---------------------------------------------------------------- claims
Initialized == stt /\ tts

\* C1: start_listening called while the state is not Idle returns
\* InvalidState and leaves the state as it is; and a start_listening called
\* while the listening session of an earlier start_listening is still open
\* (no stop_listening since) returns InvalidState.
C1_StartListeningRejected ==
    [][(StartListening /\ stt /\ (state # "Idle" \/ stt_is_listening))
         => /\ lastResult' = "InvalidState"
            /\ (state # "Idle" => state' = state)]_vars

C1_Witness ==
    /\ lastResult = "InvalidState"
    /\ state = "Listening"
    /\ stt_is_listening

\* C2: read_content and speak called on an initialized manager whose state
\* is not Idle return InvalidState and leave the state, the current reading
\* position and the running sessions unchanged.
C2_Original ==
    [][(/\ ReadContent \/ Speak
        /\ Initialized
        /\ state # "Idle")
         => /\ lastResult' = "InvalidState"
            /\ UNCHANGED <<state, current_position, syncs>>]_vars

\* C3: every change of the state is one of Idle->Listening, Listening->Idle,
\* Idle->Reading, Reading->Idle, Idle->Speaking, Speaking->Idle.
LegalTransitions ==
    {<<"Idle", "Listening">>, <<"Listening", "Idle">>,
     <<"Idle", "Reading">>, <<"Reading", "Idle">>,
     <<"Idle", "Speaking">>, <<"Speaking", "Idle">>}

C3_Original == [][state' # state => <<state, state'>> \in LegalTransitions]_vars

\* C4: whenever the state is Reading the STT provider is not listening.
C4_Original == state = "Reading" => ~stt_is_listening

\* C5: once stop_reading has returned and while no session is started, the
\* state is Idle, a synchronizer that reaches its check leaves its loop
\* without emitting, and eventually every synchronizer has ended.
AllSyncsEnded == \A i \in Sessions : syncs[i].pc = "done"

C5_ReadingCancellation ==
    /\ [](since = "stop" => state = "Idle")
    /\ [][\A i \in Sessions :
            (since = "stop" /\ SyncCheck(i)) => syncs'[i].pc = "final"]_vars
    /\ (since = "stop") ~> (AllSyncsEnded \/ since # "stop")

C5_Witness ==
    /\ since = "stop"
    /\ state = "Idle"
    /\ \E i \in Sessions :
         /\ syncs[i].pc = "done"
         /\ syncs[i].word_index > 0
         /\ syncs[i].word_index < Len(syncs[i].timings)

\* C6: a read session that is never stopped, and whose receiver is alive,
\* ends only after it has emitted its last word, and the state is Idle then.
C6_Original ==
    (since = "read" /\ syncs[Len(syncs)].pc = "done")
        => /\ syncs[Len(syncs)].word_index = Len(syncs[Len(syncs)].timings)
           /\ state = "Idle"

\* C7: the positions a session has sent, those received followed by those
\* still in the channel, are the positions of the words 0, 1, 2, ... in
\* this order: the k-th has word_index k, the start_ms of the k-th timing
\* and the document, page and paragraph of the start position.
Emitted(s) == s.delivered \o s.queue

C7_PositionsInWordOrder ==
    \A i \in Sessions :
        LET s == syncs[i]
            out == Emitted(s)
        IN  /\ Len(out) = s.word_index
            /\ \A k \in 1..Len(out) :
                 out[k] = ReadingPosition(s.start.document_id, s.start.page,
                                          s.start.paragraph_id, k - 1, 0,
                                          s.timings[k].start_ms)
            /\ \A k \in 1..(Len(out) - 1) :
                 /\ out[k].word_index < out[k + 1].word_index
                 /\ out[k].timestamp_ms <= out[k + 1].timestamp_ms

C7_Witness ==
    \E i \in Sessions :
        /\ Len(syncs[i].delivered) >= 2
        /\ syncs[i].delivered[2].timestamp_ms > 0

\* C8: while no provider was ever created, start_listening, stop_listening,
\* read_content, stop_reading and speak return NotInitialized, the state is
\* Idle and the current position is unset.
C8_NotInitialized ==
    /\ []((~stt /\ ~tts) =>
            /\ state = "Idle"
            /\ get_reading_position = None
            /\ syncs = <<>>)
    /\ [][(/\ ~stt /\ ~tts
           /\ StartListening \/ StopListening \/ ReadContent \/ StopReading \/ Speak)
            => /\ lastResult' = "NotInitialized"
               /\ state' = "Idle"
               /\ get_reading_position' = None]_vars

C8_Witness ==
    /\ ~stt /\ ~tts
    /\ lastResult = "NotInitialized"

\* C9: the position channel never holds more than 100 positions, and while
\* the receiver is alive the positions received followed by those in the
\* channel are exactly the positions produced, in production order.
C9_Backpressure ==
    \A i \in Sessions :
        LET s == syncs[i]
        IN  /\ Len(s.queue) <= POSITION_CHANNEL_CAPACITY
            /\ s.rx_alive =>
                 /\ Len(Emitted(s)) = s.word_index
                 /\ \A k \in 1..s.word_index : Emitted(s)[k].word_index = k - 1

\* the synchronizer waits in send on a full channel
C9_Witness ==
    \E i \in Sessions :
        /\ syncs[i].pc = "send"
        /\ syncs[i].rx_alive
        /\ Len(syncs[i].queue) = POSITION_CHANNEL_CAPACITY

\* C10: a session's task exists only after read_content stored a position,
\* the current position is written only by read_content's store and by a
\* synchronizer's update, and once set it is never cleared.
C10_PositionRetained ==
    /\ [](syncs # <<>> => get_reading_position # None)
    /\ [][get_reading_position # None => get_reading_position' # None]_vars
    /\ [][get_reading_position' # get_reading_position
            => ReadContentStore \/ \E i \in Sessions : SyncStore(i)]_vars

C10_Witness ==
    /\ since = "stop"
    /\ state = "Idle"
    /\ AllSyncsEnded
    /\ get_reading_position # None

\* C11: every write of the current position by a synchronizer happens while
\* the state is Reading, never while it is Idle, Listening or Speaking.
C11_Original == [][(\E i \in Sessions : SyncStore(i)) => state = "Reading"]_vars

\* C12: AdjustSpeed{delta} sets reading_speed to clamp(old + delta, 0.25, 3.0)
\* and SetSpeed{speed} to clamp(speed, 0.25, 3.0); the AdjustSpeed action
\* returned and the number in the response text are exactly the resulting
\* speed; and reading_speed always lies in [0.25, 3.0].
CarriesSpeed(resp, speed100) ==
    /\ resp.outcome = "Ok"
    /\ resp.action = Some([type |-> "AdjustSpeed", speed |-> speed100])
    /\ resp.text = <<"Speed set to ", resp.text[2], "x">>
    /\ 10 * resp.text[2] = speed100

C12_Original ==
    /\ [](reading_speed >= MIN_SPEED /\ reading_speed <= MAX_SPEED)
    /\ [][\A x \in Quarters :
            /\ ProcessAdjustSpeed(x) =>
                 /\ reading_speed' = Min(Max(reading_speed + x, MIN_SPEED), MAX_SPEED)
                 /\ CarriesSpeed(response', reading_speed')
            /\ ProcessSetSpeed(x) =>
                 /\ reading_speed' = Min(Max(x, MIN_SPEED), MAX_SPEED)
                 /\ CarriesSpeed(response', reading_speed')]_vars

ScrollsTo(resp, position, page) ==
    /\ resp.outcome = "Ok"
    /\ resp.action = Some([type |-> "ScrollTo",
                           position |-> [position EXCEPT !.page = page]])

C14_Original ==
    [][\A current \in CommandPositions :
         LET position == IF current = None
                         THEN ReadingPosition("", U32Of(0), "", 0, 0, 0)
                         ELSE current[1]
             p == position.page
         IN  /\ ProcessNavigatePage("Previous", current) =>
                  /\ ScrollsTo(response', position,
                               IF Less(U32Of(1), p) THEN Pred(p) ELSE U32Of(1))
                  /\ ~Less(response'.action[1].position.page, U32Of(1))
             /\ ProcessNavigatePage("Next", current) =>
                  ScrollsTo(response', position, Succ(p))]_vars

\* C17: the timings returned for a text are one per whitespace-separated
\* word, in text order; the first starts at 0, every start_ms is at most its
\* end_ms, the start_ms never decrease, and every end_ms is the start_ms of
\* the next entry.
WordStarts(text) ==
    {i \in 1..Len(text) : text[i] # " " /\ (i = 1 \/ text[i - 1] = " ")}

\* the length of the word that starts at character i
WordLengthAt(text, i) ==
    Cardinality({j \in i..Len(text) : \A m \in i..j : text[m] # " "})

\* the start of the k-th word
NthWordStart(text, k) ==
    CHOOSE i \in WordStarts(text) :
        Cardinality({j \in WordStarts(text) : j < i}) = k - 1

C17_TimingsContiguous ==
    /\ Len(last_timings) = Cardinality(WordStarts(timed_text))
    /\ \A k \in 1..Len(last_timings) :
         /\ last_timings[k].len = WordLengthAt(timed_text, NthWordStart(timed_text, k))
         /\ last_timings[k].start_ms <= last_timings[k].end_ms
    /\ last_timings # <<>> => last_timings[1].start_ms = 0
    /\ \A k \in 1..(Len(last_timings) - 1) :
         /\ last_timings[k].start_ms <= last_timings[k + 1].start_ms
         /\ last_timings[k].end_ms = last_timings[k + 1].start_ms

\* three words between runs of spaces, timed at the fastest rate
C17_Witness ==
    /\ Len(last_timings) = 3
    /\ Len(timed_text) = MaxChars
    /\ speaking_rate = MAX_SPEED
    /\ last_timings[3].start_ms > last_timings[2].start_ms

\* C18: start_capture called while a capture is active returns AudioError
\* and leaves the recording flag, the channel and the capture threads as
\* they are; stop_capture ends the session, nothing but start_capture opens
\* one, and start_capture called while none is active succeeds.
C18_AlreadyRecording ==
    /\ [][(start_capture /\ is_recording)
            => /\ capture_result' = "AudioError"
               /\ UNCHANGED <<is_recording, audio_tx, capture_threads>>]_vars
    /\ [][stop_capture => ~is_recording']_vars
    /\ [][(is_recording' /\ ~is_recording) => start_capture]_vars
    /\ [][(start_capture /\ ~is_recording)
            => /\ capture_result' = "Ok"
               /\ is_recording'
               /\ audio_tx' = Some(Len(capture_threads'))
               /\ Len(capture_threads') = Len(capture_threads) + 1]_vars

\* a second session, started after a stop, is streaming and a further
\* start_capture was rejected
C18_Witness ==
    /\ capture_result = "AudioError"
    /\ is_recording
    /\ Len(capture_threads) = 2
    /\ audio_tx = Some(2)
    /\ capture_threads[2].pc = "streaming"

\* C19: when the session's capture finds no input device, start_capture has
\* returned AudioError and the capture is not marked as recording.
C19_Original ==
    \A i \in DOMAIN capture_threads :
        (audio_tx = Some(i) /\ capture_threads[i].pc = "failed")
            => (capture_result = "AudioError" /\ ~is_recording)

\* C20: read_all returns capacity samples, the last capacity elements of the
\* capacity zeros a new or cleared buffer holds followed by all the samples
\* written since, oldest first; write_pos stays in 0..capacity-1.
C20_RingBuffer ==
    LET history == [i \in 1..capacity |-> 0] \o written
    IN  /\ capacity >= 1
        /\ write_pos \in 0..(capacity - 1)
        /\ Len(buffer) = capacity
        /\ Len(read_all) = capacity
        /\ read_all = SubSeq(history, Len(history) - capacity + 1, Len(history))

\* more samples written than the buffer holds: the oldest are overwritten
C20_Witness ==
    /\ capacity = 2
    /\ Len(written) > 2 * capacity
    /\ written[1] # written[Len(written) - 1]
    /\ read_all # written

\* C15: every parsed phrase that holds both "summarize" and "page", and none
\* of "document", "entire" and "section", parses to Summarize{scope: Page}
C15_Original ==
    (/\ command # None
     /\ contains(utterance, <<"s", "u", "m", "m", "a", "r", "i", "z", "e">>)
     /\ contains(utterance, <<"p", "a", "g", "e">>)
     /\ ~contains(utterance, <<"d", "o", "c", "u", "m", "e", "n", "t">>)
     /\ ~contains(utterance, <<"e", "n", "t", "i", "r", "e">>)
     /\ ~contains(utterance, <<"s", "e", "c", "t", "i", "o", "n">>))
        => command = Some(Summarize("Page"))

C21_FailFast ==
    [][InitializeConfigured =>
        /\ stt_provider # "WhisperLocal" => lastResult' = "ProviderNotAvailable"
        /\ (stt_provider = "WhisperLocal" /\ tts_provider # "PiperLocal")
               => lastResult' \in {"ProviderNotAvailable", "ModelNotFound"}
        /\ \A model_exists \in BOOLEAN :
               /\ \A v \in STTProviders \ {"WhisperLocal"} :
                      create_stt_provider(v, model_exists) = "ProviderNotAvailable"
               /\ \A v \in TTSProviders \ {"PiperLocal"} :
                      create_tts_provider(v, model_exists) = "ProviderNotAvailable"
        /\ (stt_provider # "WhisperLocal" \/ tts_provider # "PiperLocal")
               => /\ lastResult' # "Ok"
                  /\ tts' = tts
                  /\ ~is_initialized => ~is_initialized']_vars

\* the speech provider was created and the configured TTS backend failed fast
C21_Witness ==
    /\ lastResult = "ProviderNotAvailable"
    /\ stt_provider = "WhisperLocal"
    /\ tts_provider = "ElevenLabs"
    /\ stt
    /\ ~tts

\* C22: with the model present and no piper executable, synthesize of a text
\* that is not blank returns Ok with empty AudioData of a sample rate above 0
\* and one channel
C22_Original ==
    [][(Synthesize /\ ~piper_path /\ trim(synthesized'.text) # <<>>)
        => /\ synthesized'.result.outcome = "Ok"
           /\ synthesized'.result.audio.samples = <<>>
           /\ synthesized'.result.audio.sample_rate > 0
           /\ synthesized'.result.audio.channels = 1]_vars

\* C23: a transcription task whose session was stopped by stop_listening
\* ends (and closes its stream) later on, whatever is called after the stop
C23_Original ==
    \A i \in 1..MaxListens :
        (i \in DOMAIN listen_tasks /\ listen_tasks[i].stopped)
            ~> (i \in DOMAIN listen_tasks /\ listen_tasks[i].pc = "ended")

\* what each rule returns for a text, as an Option of a command, in the
\* order the parser is described to try them
RulesInOrder(text, lower) ==
    <<IF parse_note_command(lower, text) = None THEN None
      ELSE Some(NoteDown(parse_note_command(lower, text)[1])),
      IF parse_question_command(lower, text) = None THEN None
      ELSE Some(AskQuestion(parse_question_command(lower, text)[1])),
      IF parse_highlight_command(lower) = None THEN None
      ELSE Some(Highlight(parse_highlight_command(lower)[1])),
      parse_reading_command(lower),
      parse_navigation_command(lower),
      parse_speed_command(lower),
      parse_summarize_command(lower),
      IF parse_define_command(lower, text) = None THEN None
      ELSE Some(Define(parse_define_command(lower, text)[1])),
      IF parse_translate_command(lower) = None THEN None
      ELSE Some(Translate(parse_translate_command(lower)[1])),
      IF parse_search_command(lower, text) = None THEN None
      ELSE Some(Search(parse_search_command(lower, text)[1])),
      parse_zoom_command(lower),
      IF ends_with(text, <<"?">>) THEN Some(AskQuestion(text)) ELSE None,
      Some(FreeText(text))>>

Matching(rules) == {k \in 1..Len(rules) : rules[k] # None}

\* C24: the command parsed is what the first matching rule returns, in the
\* order note, question, highlight, reading, navigation, speed, summarize,
\* define, translate, search, zoom, trailing "?", free text
C24_FirstMatch ==
    command # None =>
        LET rules == RulesInOrder(trim(utterance), to_lowercase(trim(utterance)))
        IN  \E k \in Matching(rules) :
                /\ command = rules[k]
                /\ \A j \in Matching(rules) : k <= j

\* a text was parsed that three rules or more match besides the free text
C24_Witness ==
    /\ command # None
    /\ Cardinality(Matching(RulesInOrder(trim(utterance), to_lowercase(trim(utterance))))) >= 4
    /\ command[1].type = "GoToPage"

\* C25: a text that starts with a speed-up phrase parses to AdjustSpeed{0.25},
\* one that starts with a slow-down phrase to AdjustSpeed{-0.25}, "set speed
\* to N" to SetSpeed{N} exactly when 0.25 <= N <= 3.0, and no SetSpeed
\* parsed is outside 0.25..3.0 (speeds in hundredths)
C25_Original ==
    command # None =>
        /\ StartsWithAny(to_lowercase(trim(utterance)), SpeedUpPhrases)
               => command = Some(AdjustSpeed(25))
        /\ StartsWithAny(to_lowercase(trim(utterance)), SlowDownPhrases)
               => command = Some(AdjustSpeed(0 - 25))
        /\ \A numeral \in SpeedNumerals :
               utterance = SetSpeedText(numeral[1])
                   => (command = Some(SetSpeed(numeral[2]))
                           <=> (25 <= numeral[2] /\ numeral[2] <= 300))
        /\ command[1].type = "SetSpeed"
               => (25 <= command[1].speed /\ command[1].speed <= 300)

\* the values of the runs of digits that occur in a text
DigitRunValues(text) ==
    {parse_u32(SubSeq(text, i, j))[1] :
        <<i, j>> \in {r \in (1..Len(text)) \X (1..Len(text)) :
                        /\ r[1] <= r[2]
                        /\ \A m \in r[1]..r[2] : is_ascii_digit(text[m])
                        /\ parse_u32(SubSeq(text, r[1], r[2])) # None}}

NumberWordValues(text) ==
    {U32Of(k) : k \in {n \in 1..Len(WordNumbers) : contains(text, WordNumbers[n])}}

\* C26: for a text of a page command ("page ..." or "go to page ..."), the
\* number extracted from a text with digits is the value of a run of digits
\* of the text; from a text without digits, the value of a number word
\* one..ten of the text; from any other text no number is extracted; and a
\* GoToPage is parsed only with the number extracted as its page
C26_Original ==
    command # None =>
        LET lower == to_lowercase(trim(utterance))
            digits == SelectSeq(lower, is_ascii_digit)
            number == extract_number(lower)
        IN  /\ (starts_with(lower, <<"p", "a", "g", "e">>)
                    \/ starts_with(lower, <<"g", "o", " ", "t", "o", " ", "p", "a", "g", "e">>))
                   => /\ (digits # <<>> /\ number # None)
                             => number[1] \in DigitRunValues(lower)
                      /\ (digits = <<>> /\ NumberWordValues(lower) # {})
                             => (number # None /\ number[1] \in NumberWordValues(lower))
                      /\ (digits = <<>> /\ NumberWordValues(lower) = {}) => number = None
            /\ command[1].type = "GoToPage" => number = Some(command[1].page)

\* C27: the duration estimated for a word of length len at speed s is
\* (1000 / (2.5 * s)) * max(0.5, len / 5) ms as a whole number: with s in
\* hundredths that is 4000 * max(5, 2 * len) / s, and a whole number d is
\* that value rounded down, up or to the nearest when it is less than 1 away
C27_Original ==
    [][GetWordTimings =>
        \A k \in 1..Len(last_timings') :
            LET d == last_timings'[k].end_ms - last_timings'[k].start_ms
                exact == 4000 * Max(5, 2 * last_timings'[k].len)
            IN  /\ d * speaking_rate - exact < speaking_rate
                /\ exact - d * speaking_rate < speaking_rate]_vars

\* the consumer has received every chunk of a stream that is over
AllChunksReceived ==
    /\ stream_task.pc = "ended"
    /\ stream_rx_open
    /\ stream_queue = <<>>

\* the samples that came before the j-th chunk received
RECURSIVE SamplesBefore(_)
SamplesBefore(j) ==
    IF j <= 1 THEN 0 ELSE SamplesBefore(j - 1) + stream_received[j - 1].data

C29_Original ==
    resampled # None =>
        LET n == Len(resample_args.samples)
            from_rate == resample_args.from_rate
            to_rate == resample_args.to_rate
            new_len == Len(resampled[1])
        IN  /\ 2 * new_len * from_rate <= 2 * n * to_rate + from_rate
            /\ 2 * n * to_rate - from_rate <= 2 * new_len * from_rate
            /\ from_rate = to_rate
                   => resampled[1] = [k \in 1..n |-> resample_args.samples[k] * to_rate]

\* the reading session in progress: the task spawned last, while no later
\* manager call has written the state
CurrentSession == IF since = "read" /\ syncs # <<>> THEN {Len(syncs)} ELSE {}

\* C30: at every moment of a reading session the word_index returned by
\* get_reading_position is at least the word_index of every position the
\* consumer has received in that session
C30_Original ==
    \A i \in CurrentSession :
        \A k \in 1..Len(syncs[i].delivered) :
            /\ get_reading_position # None
            /\ get_reading_position[1].word_index >= syncs[i].delivered[k].word_index

\* the sessions a stop_reading ended before a later read_content started a
\* session that is not stopped
StoppedBeforeLater ==
    {i \in Sessions : stops[i].stopped /\ \E j \in Sessions : j > i /\ ~stops[j].stopped}

\* C31: after stop_reading followed by a new read_content, the task of the
\* stopped session emits no further position, does not overwrite the current
\* reading position, and does not set the state to Idle while the new session
\* is still reading
C31_Original ==
    [][\A i \in StoppedBeforeLater :
          /\ SyncSend(i) => Len(syncs'[i].queue) <= Len(syncs[i].queue)
          /\ SyncStore(i) => current_position' = current_position
          /\ (SyncFinish(i) /\ state = "Reading"
                /\ \E j \in Sessions : j > i /\ syncs[j].pc # "done")
               => state' = "Reading"]_vars

\* C32: in every reachable state of an initialized manager, whenever the
\* state is Idle the STT provider is not listening
C32_Original == (Initialized /\ state = "Idle") => ~stt_is_listening

\* C33: if the provider call inside start_listening, read_content or speak
\* (or the playback inside speak) fails, the error is returned and the state
\* is Idle afterwards
C33_Original ==
    [][/\ (StartListening /\ stt /\ ~StartListeningRejects /\ lastResult' # "Ok")
            => state' = "Idle"
       /\ (ReadContentSpawn /\ lastResult' # "Ok") => state' = "Idle"
       /\ (SpeakFinish /\ lastResult' # "Ok") => state' = "Idle"]_vars

\* the sessions stopped by a stop_reading after which no read_content began
StoppedForGood == {i \in Sessions : stops[i].stopped_at >= 0}

\* C34: once stop_reading has returned and no new read is started, the task
\* of the stopped session emits at most one further position before it exits
C34_BoundedCancellation ==
    \A i \in StoppedForGood : syncs[i].word_index - stops[i].stopped_at <= 1

\* a stopped task has exited after it emitted one position more
C34_Witness ==
    \E i \in StoppedForGood :
        /\ syncs[i].pc = "done"
        /\ syncs[i].word_index = stops[i].stopped_at + 1

\* C35: whenever no configuration-changing command is in progress, the
\* VoiceManager's config equals the stored VoiceConfig
C35_Original == config_calls = <<>> => manager_reading_speed = reading_speed

\* the place of a lock in the order the handlers take them
Rank(lock) ==
    CASE lock = "config" -> 1
      [] lock = "manager" -> 2
      [] OTHER -> 3

\* p asks for a lock only while every lock it holds comes before it
AsksInOrder(p) ==
    (IsRunning(p) /\ IsAcquire(Op(p))) => \A g \in p.held : Rank(g[2]) < Rank(Op(p)[2])

\* C36: the handlers take the config lock before the manager lock and the
\* manager lock before a session-map lock, the tasks never wait for the
\* manager or config lock, and every command called eventually returns
C36_NoDeadlock ==
    /\ [](\A k \in 1..MaxCalls : AsksInOrder(lock_calls[k]))
    /\ [](\A t \in DOMAIN lock_tasks :
             /\ AsksInOrder(lock_tasks[t])
             /\ (IsRunning(lock_tasks[t]) /\ IsAcquire(Op(lock_tasks[t])))
                    => Op(lock_tasks[t])[2] \notin {"config", "manager"})
    /\ \A k \in 1..MaxCalls :
           (lock_calls[k].kind # "none") ~> HasReturned(lock_calls[k])

\* set_reading_speed holds the config lock and waits for the manager lock,
\* which start_reading holds while it stores the receiver in the session map
C36_Witness ==
    \E k, j \in 1..MaxCalls :
        /\ lock_calls[k].kind = "set_reading_speed"
        /\ <<"write", "config">> \in lock_calls[k].held
        /\ Op(lock_calls[k]) = <<"lock", "manager">>
        /\ ~CanAcquire(Op(lock_calls[k]))
        /\ lock_calls[j].kind = "start_reading"
        /\ lock_calls[j].held = {<<"lock", "manager">>, <<"lock", "reading_sessions">>}

\* every read has its event task, every task is done and every stream ended
AllReadingDone ==
    /\ read_call = None
    /\ ended_streams = 1..Len(reads)
    /\ \A t \in DOMAIN event_tasks : event_tasks[t].pc = "done"

\* C37: the receiver a start_reading stores is never overwritten and is taken
\* by the event task of the same call, and every successful start_reading
\* results in exactly one voice:reading_complete for its document once its
\* position stream ends
C37_Original ==
    /\ \A t \in DOMAIN event_tasks :
           event_tasks[t].pc # "remove" => event_tasks[t].rx = event_tasks[t].call
    /\ AllReadingDone =>
           \A d \in DocumentIds :
               complete_events[d] = Cardinality({n \in DOMAIN reads : reads[n] = d})

\* C38: for every text and every current position on a page from 1 on (or
\* none), every ScrollTo that process_voice_command(parse(text), position)
\* returns targets a page from 1 on
C38_Original ==
    (/\ response.outcome = "Ok"
     /\ response.action # None
     /\ response.action[1].type = "ScrollTo")
        => Less(U32Of(0), response.action[1].position.page)

====
